---- MODULE Spec2Model ----
(***************************************************************************)
(* A model of the Little Minion Computer: the bounded number types of      *)
(* numbers.rs, the two-pass assembler of assembler.rs and the virtual      *)
(* machine of lmc.rs.                                                      *)
(*                                                                         *)
(* Text is a sequence of one-character strings.  Option<T> is a sequence   *)
(* of length 0 (None) or 1 (Some).  Option<Flag> is one of the strings     *)
(* "None", "NEG", "OVERFLOW".  Result values are records with a tag.       *)
(***************************************************************************)
EXTENDS Integers, Sequences, FiniteSets, TLC

VARIABLES
    mailboxes,    \* LMC.mailboxes: [0..99 -> ThreeDigitNumber]
    calculator,   \* LMC.calculator
    in_basket,    \* LMC.in_basket
    out_basket,   \* LMC.out_basket
    counter,      \* LMC.counter
    flag,         \* LMC.flag
    max_cycles,   \* LMC.max_cycles
    cycles,       \* the local `cycles` of execute_program
    pc,           \* where the caller is: "idle", "running", "panicked"
    result,       \* what the last call on the machine returned
    last,         \* the last fetch-execute cycle: what was fetched and the state it started from
    hist,         \* the calls made on the machine since it was constructed
    calls,        \* number of calls made on the machine
    inputs,       \* the values given to load_input and those IN took from the queue, in order
    asm_input,    \* the lines given to the last assemble call
    assembled,    \* what the last assemble call returned
    num_args,     \* the operands of the last number operation
    num_result,   \* what the last number operation returned
    trial,        \* a repeated trial: the input batch and what the first run gave
    twin,         \* the LMC of main.rs: its fields, whether it runs, what it returned
    paths         \* the counter values the two machines have fetched from, in order

vars == <<mailboxes, calculator, in_basket, out_basket, counter, flag, max_cycles,
          cycles, pc, result, last, hist, calls, inputs, asm_input, assembled,
          num_args, num_result, trial, twin, paths>>

machine_vars == <<mailboxes, calculator, in_basket, out_basket, counter, flag,
                  max_cycles, cycles, pc, result, last, hist, calls, inputs>>

asm_vars == <<asm_input, assembled>>

num_vars == <<num_args, num_result>>

-----------------------------------------------------------------------------
(* Bounds of the model *)

\* calls made on one machine
MaxCalls == 4

\* width in bits of the cycle counter (usize in the source, 64 bits on the
\* build targets; the model keeps the wrap-around and scales the width down)
CyclesWidth == 3

-----------------------------------------------------------------------------
(* Constants of the program *)

\* mailboxes: [ThreeDigitNumber; 100]
MailboxCount == 100

\* 0 <= value && value <= 999
ThreeDigitMax == 999

\* value <= 99
TwoDigitMax == 99

\* i16
I16Bits == 16

I16Min == -(2 ^ (I16Bits - 1))

I16Max == 2 ^ (I16Bits - 1) - 1

I16 == I16Min .. I16Max

Flags == {"None", "NEG", "OVERFLOW"}

-----------------------------------------------------------------------------
(* numbers.rs *)

\* A usize produced by an `as usize` cast, as four 16-bit limbs, most
\* significant first (2^64 does not fit the checker's integers).  The cast of
\* a negative i16 sign-extends.
AsUsize(value) ==
    IF value >= 0
    THEN <<0, 0, 0, value>>
    ELSE <<2 ^ 16 - 1, 2 ^ 16 - 1, 2 ^ 16 - 1, 2 ^ 16 + value>>

\* Ok(n)
OkNum(n) == [tag |-> "Ok", num |-> n]

\* Err(e)
Err(e) == [tag |-> "Err", err |-> e]

\* NumberError::OutOfBounds(u)
OutOfBounds(u) == [kind |-> "OutOfBounds", val |-> u]

ThreeDigitNumber(value, f) == [value |-> value, flag |-> f]

\* ThreeDigitNumber::new_with_flag
ThreeDigitNew_with_flag(value, f) ==
    IF 0 <= value /\ value <= ThreeDigitMax
    THEN OkNum(ThreeDigitNumber(value, f))
    ELSE Err(OutOfBounds(AsUsize(value)))

\* ThreeDigitNumber::new
ThreeDigitNew(value) ==
    IF 0 <= value /\ value <= ThreeDigitMax
    THEN OkNum(ThreeDigitNumber(value, "None"))
    ELSE Err(OutOfBounds(AsUsize(value)))

\* i16::rem_euclid
RemEuclid(a, m) == a % m

\* impl Add for ThreeDigitNumber
ThreeDigitAdd(self, other) ==
    LET sum == self.value + other.value
    IN  IF sum > 999
        THEN ThreeDigitNew_with_flag(sum - 1000, "OVERFLOW")
        ELSE ThreeDigitNew(sum)

\* the subtraction flagging a zero difference as negative
ThreeDigitSubZeroNeg(self, other) ==
    LET diff == self.value - other.value
    IN  IF diff <= 0
        THEN ThreeDigitNew_with_flag(RemEuclid(diff, 1000), "NEG")
        ELSE ThreeDigitNew(diff)

\* impl Sub for ThreeDigitNumber
ThreeDigitSub(self, other) ==
    LET diff == self.value - other.value
    IN  IF diff < 0
        THEN ThreeDigitNew_with_flag(RemEuclid(diff, 1000), "NEG")
        ELSE ThreeDigitNew(diff)

TwoDigitNumber(value, f) == [value |-> value, flag |-> f]

\* TwoDigitNumber::new
TwoDigitNew(value) ==
    IF value <= TwoDigitMax
    THEN OkNum(TwoDigitNumber(value, "None"))
    ELSE Err(OutOfBounds(AsUsize(value)))

\* TwoDigitNumber::new_with_flag
TwoDigitNew_with_flag(value, f) ==
    IF value <= TwoDigitMax
    THEN OkNum(TwoDigitNumber(value, f))
    ELSE Err(OutOfBounds(AsUsize(value)))

\* the addition of counters that does not wrap at 100
TwoDigitAddUnwrapped(self, other) ==
    LET sum == self.value + other.value
    IN  IF sum > 99
        THEN OkNum(TwoDigitNumber(sum, "OVERFLOW"))
        ELSE TwoDigitNew(sum)

\* impl Add for TwoDigitNumber (u8 arithmetic: both operands are at most 99)
TwoDigitAdd(self, other) ==
    LET sum == self.value + other.value
    IN  IF sum > 99
        THEN TwoDigitNew_with_flag(sum % 100, "OVERFLOW")
        ELSE TwoDigitNew(sum)

-----------------------------------------------------------------------------
(* Text: str::trim, str::split_whitespace, str::parse::<i16> *)

Whitespace == {" ", "\t", "\n", "\r"}

Digits == {"0", "1", "2", "3", "4", "5", "6", "7", "8", "9"}

\* char::to_digit(10)
ToDigit(c) ==
    CASE c = "0" -> 0 [] c = "1" -> 1 [] c = "2" -> 2 [] c = "3" -> 3
      [] c = "4" -> 4 [] c = "5" -> 5 [] c = "6" -> 6 [] c = "7" -> 7
      [] c = "8" -> 8 [] c = "9" -> 9

RECURSIVE TrimStart(_)
TrimStart(s) ==
    IF s # <<>> /\ Head(s) \in Whitespace THEN TrimStart(Tail(s)) ELSE s

RECURSIVE TrimEnd(_)
TrimEnd(s) ==
    IF s # <<>> /\ s[Len(s)] \in Whitespace
    THEN TrimEnd(SubSeq(s, 1, Len(s) - 1))
    ELSE s

\* str::trim
Trim(s) == TrimEnd(TrimStart(s))

\* str::split_whitespace, `word` being the token under construction
RECURSIVE SplitFrom(_, _)
SplitFrom(s, word) ==
    IF s = <<>>
    THEN IF word = <<>> THEN <<>> ELSE <<word>>
    ELSE IF Head(s) \in Whitespace
         THEN IF word = <<>>
              THEN SplitFrom(Tail(s), <<>>)
              ELSE <<word>> \o SplitFrom(Tail(s), <<>>)
         ELSE SplitFrom(Tail(s), Append(word, Head(s)))

SplitWhitespace(s) == SplitFrom(s, <<>>)

\* Err(ParseIntError), with the text its to_string() gives
ParseIntError(msg) == Err([kind |-> "ParseIntError", msg |-> msg])

\* the digit loop of i16::from_str: checked_mul, to_digit, checked_add/sub
RECURSIVE ParseDigits(_, _, _)
ParseDigits(digits, acc, positive) ==
    IF digits = <<>>
    THEN OkNum(acc)
    ELSE LET c == Head(digits)
             mul == acc * 10
         IN  IF c \notin Digits
             THEN ParseIntError("invalid digit found in string")
             ELSE IF positive
                  THEN IF mul > I16Max \/ mul + ToDigit(c) > I16Max
                       THEN ParseIntError("number too large to fit in target type")
                       ELSE ParseDigits(Tail(digits), mul + ToDigit(c), positive)
                  ELSE IF mul < I16Min \/ mul - ToDigit(c) < I16Min
                       THEN ParseIntError("number too small to fit in target type")
                       ELSE ParseDigits(Tail(digits), mul - ToDigit(c), positive)

\* str::parse::<i16>
ParseI16(s) ==
    IF s = <<>>
    THEN ParseIntError("cannot parse integer from empty string")
    ELSE IF Head(s) \in {"+", "-"} /\ Len(s) = 1
         THEN ParseIntError("invalid digit found in string")
         ELSE IF Head(s) = "+" THEN ParseDigits(Tail(s), 0, TRUE)
         ELSE IF Head(s) = "-" THEN ParseDigits(Tail(s), 0, FALSE)
         ELSE ParseDigits(s, 0, TRUE)

\* format!("{:0w$}", n) for 0 <= n
RECURSIVE FormatPadded(_, _)
FormatPadded(n, w) ==
    LET digit == <<"0", "1", "2", "3", "4", "5", "6", "7", "8", "9">>
    IN  IF n < 10 /\ w <= 1
        THEN <<digit[n + 1]>>
        ELSE Append(FormatPadded(n \div 10, w - 1), digit[(n % 10) + 1])

-----------------------------------------------------------------------------
(* lmc.rs: the virtual machine *)

\* Ok(())
Ok == [tag |-> "Ok"]

\* no value: a call that has not returned, an operation not yet applied
Nothing == [tag |-> "None"]

\* LMCError::NumberError(e), also From<NumberError> for LMCError
NumberError(e) == [kind |-> "NumberError", inner |-> e]

\* LMCError::ProgramTooLarge(n)
ProgramTooLarge(n) == [kind |-> "ProgramTooLarge", val |-> n]

\* LMCError::IOError(msg)
IOError(msg) == [kind |-> "IOError", msg |-> msg]

\* LMCError::InvalidOpcode(text)
InvalidOpcode(text) == [kind |-> "InvalidOpcode", text |-> text]

\* LMCError::MaxCyclesHit(n)
MaxCyclesHit(n) == [kind |-> "MaxCyclesHit", val |-> n]

Addresses == 0 .. (MailboxCount - 1)

\* the values a cycle counter of CyclesWidth bits takes
CycleCounts == 0 .. (2 ^ CyclesWidth - 1)

\* no fetch-execute cycle has run since the last call
NoCycle == [word |-> -1, counter |-> -1, flag |-> "None", calc |-> -1,
            queue |-> <<>>, ext |-> <<>>]

\* a call, its argument and what it returned
Returned(op, arg, ret) == [op |-> op, arg |-> arg, ret |-> ret]

\* no operation has been applied
NotApplied == Returned("none", <<>>, [tag |-> "None"])

\* no trial is being repeated
NoTrial == [batch |-> <<>>, output |-> <<>>, ret |-> Nothing]

\* what has been done with the machine since LMC::new: nothing ("fresh"), one
\* successful load_program of `program` ("loaded"), that and one
\* execute_program ("run"), or anything else ("used"); set_max_cycles before
\* the run and get_output do not count
History(stage, program) == [stage |-> stage, program |-> program]

\* a program given as its values
Words(values) == [i \in 1 .. Len(values) |-> ThreeDigitNumber(values[i], "None")]

\* LMC::new
LMCNew(max) ==
    /\ mailboxes = [i \in Addresses |-> ThreeDigitNew(0).num]
    /\ calculator = ThreeDigitNew(0).num
    /\ in_basket = <<>>
    /\ out_basket = <<>>
    /\ counter = TwoDigitNew(0).num
    /\ flag = "None"
    /\ max_cycles = max
    /\ cycles = 0
    /\ pc = "idle"
    /\ result = Returned("new", max, Ok)
    /\ last = NoCycle
    /\ hist = History("fresh", <<>>)
    /\ calls = 0
    /\ inputs = [loaded |-> <<>>, consumed |-> <<>>]

\* a call by the owner of the machine: none is in progress
Call == pc = "idle" /\ calls' = calls + 1 /\ last' = NoCycle

\* load_program clearing the mailboxes behind the program
load_program_zero_fill(program) ==
    /\ Call
    /\ IF Len(program) > 100
       THEN /\ result' = Returned("load_program", program, Err(ProgramTooLarge(Len(program))))
            /\ UNCHANGED mailboxes
       ELSE /\ mailboxes' = [i \in Addresses |->
                               IF i < Len(program) THEN program[i + 1] ELSE ThreeDigitNew(0).num]
            /\ result' = Returned("load_program", program, Ok)
    /\ hist' = IF hist.stage = "fresh" /\ result'.ret = Ok
               THEN History("loaded", program)
               ELSE History("used", <<>>)
    /\ UNCHANGED <<calculator, in_basket, out_basket, counter, flag, max_cycles, cycles, pc,
                   inputs>>

\* load_program refusing a program that fills the mailboxes
load_program_refuse_full(program) ==
    /\ Call
    /\ IF Len(program) >= 100
       THEN /\ result' = Returned("load_program", program, Err(ProgramTooLarge(Len(program))))
            /\ UNCHANGED mailboxes
       ELSE /\ mailboxes' = [i \in Addresses |->
                               IF i < Len(program) THEN program[i + 1] ELSE mailboxes[i]]
            /\ result' = Returned("load_program", program, Ok)
    /\ hist' = IF hist.stage = "fresh" /\ result'.ret = Ok
               THEN History("loaded", program)
               ELSE History("used", <<>>)
    /\ UNCHANGED <<calculator, in_basket, out_basket, counter, flag, max_cycles, cycles, pc,
                   inputs>>

\* LMC::load_program
load_program(program) ==
    /\ Call
    /\ IF Len(program) > 100
       THEN /\ result' = Returned("load_program", program, Err(ProgramTooLarge(Len(program))))
            /\ UNCHANGED mailboxes
       ELSE /\ mailboxes' = [i \in Addresses |->
                               IF i < Len(program) THEN program[i + 1] ELSE mailboxes[i]]
            /\ result' = Returned("load_program", program, Ok)
    /\ hist' = IF hist.stage = "fresh" /\ result'.ret = Ok
               THEN History("loaded", program)
               ELSE History("used", <<>>)
    /\ UNCHANGED <<calculator, in_basket, out_basket, counter, flag, max_cycles, cycles, pc,
                   inputs>>

\* reset_counter clearing the output slot as well
reset_counter_clearing ==
    /\ Call
    /\ counter' = TwoDigitNew(0).num
    /\ out_basket' = <<>>
    /\ result' = Returned("reset_counter", <<>>, Ok)
    /\ hist' = History("used", <<>>)
    /\ UNCHANGED <<mailboxes, calculator, in_basket, flag, max_cycles, cycles, pc, inputs>>

\* LMC::reset_counter
reset_counter ==
    /\ Call
    /\ counter' = TwoDigitNew(0).num
    /\ result' = Returned("reset_counter", <<>>, Ok)
    /\ hist' = History("used", <<>>)
    /\ UNCHANGED <<mailboxes, calculator, in_basket, out_basket, flag, max_cycles, cycles, pc,
                   inputs>>

\* LMC::set_max_cycles
set_max_cycles(max) ==
    /\ Call
    /\ max_cycles' = max
    /\ result' = Returned("set_max_cycles", max, Ok)
    /\ hist' = IF hist.stage \in {"fresh", "loaded"} THEN hist ELSE History("used", <<>>)
    /\ UNCHANGED <<mailboxes, calculator, in_basket, out_basket, counter, flag, cycles, pc,
                   inputs>>

\* load_input putting its values in front of the queue
load_input_front(input) ==
    /\ Call
    /\ in_basket' = input \o in_basket
    /\ inputs' = [inputs EXCEPT !.loaded = @ \o input]
    /\ result' = Returned("load_input", input, Ok)
    /\ hist' = History("used", <<>>)
    /\ UNCHANGED <<mailboxes, calculator, out_basket, counter, flag, max_cycles, cycles, pc>>

\* LMC::load_input
load_input(input) ==
    /\ Call
    /\ in_basket' = in_basket \o input
    /\ inputs' = [inputs EXCEPT !.loaded = @ \o input]
    /\ result' = Returned("load_input", input, Ok)
    /\ hist' = History("used", <<>>)
    /\ UNCHANGED <<mailboxes, calculator, out_basket, counter, flag, max_cycles, cycles, pc>>

\* LMC::get_output
get_output ==
    /\ Call
    /\ result' = Returned("get_output", <<>>, [tag |-> "Output", val |-> out_basket])
    /\ UNCHANGED <<mailboxes, calculator, in_basket, out_basket, counter, flag,
                   max_cycles, cycles, pc, hist, inputs>>

\* the loop of execute_program goes round again
Continue == pc' = "running" /\ UNCHANGED result

\* execute_program returns
Return(ret) == pc' = "idle" /\ result' = Returned("execute_program", <<>>, ret)

\* a counter that stays at 99 instead of going round
CounterIncSaturating ==
    IF counter.value = 99 THEN counter ELSE TwoDigitAdd(counter, TwoDigitNew(1).num).num

\* self.counter += TwoDigitNumber::new(1)
CounterInc == TwoDigitAdd(counter, TwoDigitNew(1).num).num

\* LMC::add
add(operand) ==
    LET value == mailboxes[operand]
    IN  /\ calculator' = ThreeDigitAdd(calculator, value).num
        /\ flag' = calculator'.flag
        /\ counter' = CounterInc
        /\ UNCHANGED <<mailboxes, in_basket, out_basket>>
        /\ Continue

\* sub keeping the flag an earlier instruction left when its own result has none
sub_sticky(operand) ==
    LET value == mailboxes[operand]
    IN  /\ calculator' = ThreeDigitSub(calculator, value).num
        /\ flag' = IF calculator'.flag = "None" THEN flag ELSE calculator'.flag
        /\ counter' = CounterInc
        /\ UNCHANGED <<mailboxes, in_basket, out_basket>>
        /\ Continue

\* LMC::sub
sub(operand) ==
    LET value == mailboxes[operand]
    IN  /\ calculator' = ThreeDigitSub(calculator, value).num
        /\ flag' = calculator'.flag
        /\ counter' = CounterInc
        /\ UNCHANGED <<mailboxes, in_basket, out_basket>>
        /\ Continue

\* sto writing the mailbox after the one its operand names
sto_shifted(operand) ==
    LET value == calculator
    IN  /\ mailboxes' = [mailboxes EXCEPT ![(operand + 1) % 100] = value]
        /\ counter' = CounterInc
        /\ UNCHANGED <<calculator, flag, in_basket, out_basket>>
        /\ Continue

\* LMC::sto
sto(operand) ==
    LET value == calculator
    IN  /\ mailboxes' = [mailboxes EXCEPT ![operand] = value]
        /\ counter' = CounterInc
        /\ UNCHANGED <<calculator, flag, in_basket, out_basket>>
        /\ Continue

\* lda taking the machine flag from the number it loads
lda_flag_of_value(operand) ==
    LET value == mailboxes[operand]
    IN  /\ calculator' = value
        /\ flag' = value.flag
        /\ counter' = CounterInc
        /\ UNCHANGED <<mailboxes, in_basket, out_basket>>
        /\ Continue

\* LMC::lda
lda(operand) ==
    LET value == mailboxes[operand]
    IN  /\ calculator' = value
        /\ flag' = "None"
        /\ counter' = CounterInc
        /\ UNCHANGED <<mailboxes, in_basket, out_basket>>
        /\ Continue

\* LMC::br
br(operand) ==
    /\ counter' = TwoDigitNew(operand).num
    /\ UNCHANGED <<mailboxes, calculator, flag, in_basket, out_basket>>
    /\ Continue

\* brz jumping only on a zero that carries no flag
brz_unflagged(operand) ==
    /\ IF calculator.value = 0 /\ flag = "None"
       THEN counter' = TwoDigitNew(operand).num
       ELSE counter' = CounterInc
    /\ UNCHANGED <<mailboxes, calculator, flag, in_basket, out_basket>>
    /\ Continue

\* LMC::brz
brz(operand) ==
    /\ IF calculator.value = 0
       THEN counter' = TwoDigitNew(operand).num
       ELSE counter' = CounterInc
    /\ UNCHANGED <<mailboxes, calculator, flag, in_basket, out_basket>>
    /\ Continue

\* LMC::brp, with the mutation that branches on the accumulator's value
brp_on_value(operand) ==
    /\ IF calculator.value = 0
       THEN counter' = CounterInc
       ELSE counter' = TwoDigitNew(operand).num
    /\ UNCHANGED <<mailboxes, calculator, flag, in_basket, out_basket>>
    /\ Continue

\* LMC::brp
brp(operand) ==
    /\ IF flag = "NEG"
       THEN counter' = CounterInc
       ELSE counter' = TwoDigitNew(operand).num
    /\ UNCHANGED <<mailboxes, calculator, flag, in_basket, out_basket>>
    /\ Continue

\* What the process's standard streams do during one read_blocking: whether
\* the flush of stdout and the read_line of stdin succeed, and the line read.
External(flush, read, text) == [flush |-> flush, read |-> read, text |-> text]

\* LMC::read_blocking
read_blocking(ext) ==
    IF ~ext.flush THEN Err(IOError("flush"))
    ELSE IF ~ext.read THEN Err(IOError("read_line"))
    ELSE LET trimmed == Trim(ext.text)
             parsed == ParseI16(trimmed)
         IN  IF parsed.tag = "Ok"
             THEN LET number == ThreeDigitNew(parsed.num)
                  IN  IF number.tag = "Ok"
                      THEN number
                      ELSE Err(NumberError(number.err))
             ELSE Err(IOError(parsed.err.msg))

\* read_input taking the machine flag from the number read
read_input_flagging(ext) ==
    LET got == IF in_basket # <<>>
               THEN OkNum(Head(in_basket))
               ELSE read_blocking(ext[1])
    IN  /\ in_basket' = IF in_basket # <<>> THEN Tail(in_basket) ELSE in_basket
        /\ IF got.tag = "Ok"
           THEN /\ calculator' = got.num
                /\ flag' = got.num.flag
                /\ counter' = CounterInc
                /\ Continue
           ELSE /\ UNCHANGED <<calculator, counter, flag>>
                /\ Return(got)
        /\ UNCHANGED <<mailboxes, out_basket>>

\* read_input moving the counter on before it knows the read succeeded
read_input_advancing(ext) ==
    LET got == IF in_basket # <<>>
               THEN OkNum(Head(in_basket))
               ELSE read_blocking(ext[1])
    IN  /\ in_basket' = IF in_basket # <<>> THEN Tail(in_basket) ELSE in_basket
        /\ counter' = CounterInc
        /\ IF got.tag = "Ok"
           THEN /\ calculator' = got.num
                /\ Continue
           ELSE /\ UNCHANGED calculator
                /\ Return(got)
        /\ UNCHANGED <<mailboxes, flag, out_basket>>

\* LMC::read_input; ext is what the streams do if the queue is empty
read_input(ext) ==
    LET got == IF in_basket # <<>>
               THEN OkNum(Head(in_basket))
               ELSE read_blocking(ext[1])
    IN  /\ in_basket' = IF in_basket # <<>> THEN Tail(in_basket) ELSE in_basket
        /\ IF got.tag = "Ok"
           THEN /\ calculator' = got.num
                /\ counter' = CounterInc
                /\ Continue
           ELSE /\ UNCHANGED <<calculator, counter>>
                /\ Return(got)
        /\ UNCHANGED <<mailboxes, flag, out_basket>>

\* write_output keeping a value the slot already holds
write_output_once ==
    /\ out_basket' = IF out_basket = <<>> THEN <<calculator>> ELSE out_basket
    /\ counter' = CounterInc
    /\ UNCHANGED <<mailboxes, calculator, flag, in_basket>>
    /\ Continue

\* LMC::write_output
write_output ==
    /\ out_basket' = <<calculator>>
    /\ counter' = CounterInc
    /\ UNCHANGED <<mailboxes, calculator, flag, in_basket>>
    /\ Continue

\* the cycle check letting the cycle that reaches the maximum run
HitsMaxLate(c) == max_cycles < c

\* `self.max_cycles == cycles`
HitsMax(c) == max_cycles = c

\* the match with a HLT that moves the counter on like any other instruction
DispatchHaltAdvancing(opcode, operand, ext) ==
    CASE opcode = 1 -> add(operand)
      [] opcode = 2 -> sub(operand)
      [] opcode = 3 -> sto(operand)
      [] opcode = 5 -> lda(operand)
      [] opcode = 6 -> br(operand)
      [] opcode = 7 -> brz(operand)
      [] opcode = 8 -> brp(operand)
      [] opcode = 9 /\ operand = 1 -> read_input(ext)
      [] opcode = 9 /\ operand = 2 -> write_output
      [] opcode = 9 /\ operand \notin {1, 2} ->
            /\ Return(Err(InvalidOpcode(<<"9">> \o FormatPadded(opcode, 2))))
            /\ UNCHANGED <<mailboxes, calculator, flag, counter, in_basket, out_basket>>
      [] opcode = 0 ->
            /\ Return(Ok)
            /\ counter' = CounterInc
            /\ UNCHANGED <<mailboxes, calculator, flag, in_basket, out_basket>>
      [] OTHER ->
            /\ Return(Err(InvalidOpcode(FormatPadded(opcode, 3))))
            /\ UNCHANGED <<mailboxes, calculator, flag, counter, in_basket, out_basket>>

\* the match on opcode and operand in execute_program
Dispatch(opcode, operand, ext) ==
    CASE opcode = 1 -> add(operand)
      [] opcode = 2 -> sub(operand)
      [] opcode = 3 -> sto(operand)
      [] opcode = 5 -> lda(operand)
      [] opcode = 6 -> br(operand)
      [] opcode = 7 -> brz(operand)
      [] opcode = 8 -> brp(operand)
      [] opcode = 9 /\ operand = 1 -> read_input(ext)
      [] opcode = 9 /\ operand = 2 -> write_output
      [] opcode = 9 /\ operand \notin {1, 2} ->
            /\ Return(Err(InvalidOpcode(<<"9">> \o FormatPadded(opcode, 2))))
            /\ UNCHANGED <<mailboxes, calculator, flag, counter, in_basket, out_basket>>
      [] opcode = 0 ->
            /\ Return(Ok)
            /\ UNCHANGED <<mailboxes, calculator, flag, counter, in_basket, out_basket>>
      [] OTHER ->
            /\ Return(Err(InvalidOpcode(FormatPadded(opcode, 3))))
            /\ UNCHANGED <<mailboxes, calculator, flag, counter, in_basket, out_basket>>

\* execute_program going on from the cycle count of the call before
execute_program_resuming ==
    /\ Call
    /\ pc' = "running"
    /\ hist' = IF hist.stage = "loaded"
               THEN History("run", hist.program)
               ELSE History("used", <<>>)
    /\ result' = Returned("execute_program", <<>>, Nothing)
    /\ UNCHANGED <<mailboxes, calculator, in_basket, out_basket, counter, flag,
                   max_cycles, cycles, inputs>>

\* LMC::execute_program, up to the loop
execute_program ==
    /\ Call
    /\ cycles' = 0
    /\ pc' = "running"
    /\ hist' = IF hist.stage = "loaded"
               THEN History("run", hist.program)
               ELSE History("used", <<>>)
    /\ result' = Returned("execute_program", <<>>, Nothing)
    /\ UNCHANGED <<mailboxes, calculator, in_basket, out_basket, counter, flag,
                   max_cycles, inputs>>

\* one round of the loop of execute_program from `cycles += 1` on, the
\* addition not overflowing or wrapping round
Cycle(stdin) ==
    /\ pc = "running"
    /\ cycles' = (cycles + 1) % (2 ^ CyclesWidth)
    /\ IF HitsMax(cycles')
       THEN /\ Return(Err(MaxCyclesHit(max_cycles)))
            /\ last' = NoCycle
            /\ UNCHANGED <<mailboxes, calculator, flag, counter, in_basket, out_basket, inputs>>
       ELSE LET instruction == mailboxes[counter.value]
                opcode == instruction.value \div 100
                operand == instruction.value % 100
                reads == opcode = 9 /\ operand = 1 /\ in_basket = <<>>
            IN  \E ext \in IF reads THEN {<<e>> : e \in stdin} ELSE {<<>>} :
                    /\ last' = [word |-> instruction.value, counter |-> counter.value,
                                flag |-> flag, calc |-> calculator.value,
                                queue |-> in_basket, ext |-> ext]
                    /\ Dispatch(opcode, operand, ext)
                    /\ inputs' = IF opcode = 9 /\ operand = 1 /\ in_basket # <<>>
                                  THEN [inputs EXCEPT !.consumed = Append(@, calculator')]
                                  ELSE inputs
    /\ UNCHANGED <<max_cycles, hist, calls>>

\* `cycles += 1` overflowing in a build with overflow checks: the process aborts
CycleOverflow ==
    /\ pc = "running"
    /\ cycles = 2 ^ CyclesWidth - 1
    /\ pc' = "panicked"
    /\ UNCHANGED <<mailboxes, calculator, in_basket, out_basket, counter, flag,
                   max_cycles, cycles, result, last, hist, calls, inputs>>

-----------------------------------------------------------------------------
(* main.rs: the machine of the binary, its LMC as a record `self` *)

\* LMC::new of main.rs, no call made on it
main_new ==
    [mailboxes |-> [i \in Addresses |-> ThreeDigitNew(0).num],
     calculator |-> ThreeDigitNew(0).num,
     in_basket |-> <<>>,
     out_basket |-> <<>>,
     counter |-> TwoDigitNew(0).num,
     flag |-> "None",
     pc |-> "idle",
     ret |-> Nothing]

\* LMC::load_program of main.rs
main_load_program(self, program) ==
    IF Len(program) > 100
    THEN [self EXCEPT !.ret = Err(ProgramTooLarge(Len(program)))]
    ELSE [self EXCEPT !.mailboxes = [i \in Addresses |->
                                        IF i < Len(program) THEN program[i + 1] ELSE @[i]],
                      !.ret = Ok]

\* LMC::add of main.rs
main_add(self, operand) ==
    LET value == self.mailboxes[operand]
        sum == ThreeDigitAdd(self.calculator, value).num
    IN  [self EXCEPT !.calculator = sum,
                     !.flag = sum.flag,
                     !.counter = TwoDigitAdd(@, TwoDigitNew(1).num).num]

\* LMC::sub of main.rs
main_sub(self, operand) ==
    LET value == self.mailboxes[operand]
        difference == ThreeDigitSub(self.calculator, value).num
    IN  [self EXCEPT !.calculator = difference,
                     !.flag = difference.flag,
                     !.counter = TwoDigitAdd(@, TwoDigitNew(1).num).num]

\* LMC::sto of main.rs
main_sto(self, operand) ==
    LET value == self.calculator
    IN  [self EXCEPT !.mailboxes[operand] = value,
                     !.counter = TwoDigitAdd(@, TwoDigitNew(1).num).num]

\* LMC::lda of main.rs: self.flag is not assigned
main_lda(self, operand) ==
    LET value == self.mailboxes[operand]
    IN  [self EXCEPT !.calculator = value,
                     !.counter = TwoDigitAdd(@, TwoDigitNew(1).num).num]

\* LMC::br of main.rs
main_br(self, operand) == [self EXCEPT !.counter = TwoDigitNew(operand).num]

\* LMC::brz of main.rs
main_brz(self, operand) ==
    IF self.calculator.value = 0
    THEN [self EXCEPT !.counter = TwoDigitNew(operand).num]
    ELSE [self EXCEPT !.counter = TwoDigitAdd(@, TwoDigitNew(1).num).num]

\* LMC::brp of main.rs
main_brp(self, operand) ==
    IF self.flag = "NEG"
    THEN [self EXCEPT !.counter = TwoDigitAdd(@, TwoDigitNew(1).num).num]
    ELSE [self EXCEPT !.counter = TwoDigitNew(operand).num]

\* LMC::read_input of main.rs, read_blocking being that of lmc.rs word for word
main_read_input(self, ext) ==
    LET got == IF self.in_basket # <<>>
               THEN OkNum(Head(self.in_basket))
               ELSE read_blocking(ext[1])
        popped == IF self.in_basket # <<>> THEN Tail(self.in_basket) ELSE self.in_basket
    IN  IF got.tag = "Ok"
        THEN [self EXCEPT !.calculator = got.num,
                          !.in_basket = popped,
                          !.counter = TwoDigitAdd(@, TwoDigitNew(1).num).num]
        ELSE [self EXCEPT !.in_basket = popped, !.pc = "idle", !.ret = got]

\* LMC::write_output of main.rs
main_write_output(self) ==
    [self EXCEPT !.out_basket = <<self.calculator>>,
                 !.counter = TwoDigitAdd(@, TwoDigitNew(1).num).num]

\* LMC::execute_program of main.rs, up to the loop
main_execute_program(self) == [self EXCEPT !.pc = "running", !.ret = Nothing]

\* one round of the loop of execute_program of main.rs; it counts no cycles
main_cycle(self, ext) ==
    LET instruction == self.mailboxes[self.counter.value]
        opcode == instruction.value \div 100
        operand == instruction.value % 100
    IN  CASE opcode = 1 -> main_add(self, operand)
          [] opcode = 2 -> main_sub(self, operand)
          [] opcode = 3 -> main_sto(self, operand)
          [] opcode = 5 -> main_lda(self, operand)
          [] opcode = 6 -> main_br(self, operand)
          [] opcode = 7 -> main_brz(self, operand)
          [] opcode = 8 -> main_brp(self, operand)
          [] opcode = 9 /\ operand = 1 -> main_read_input(self, ext)
          [] opcode = 9 /\ operand = 2 -> main_write_output(self)
          [] opcode = 9 /\ operand \notin {1, 2} ->
                [self EXCEPT !.pc = "idle",
                             !.ret = Err(InvalidOpcode(<<"9">> \o FormatPadded(opcode, 2)))]
          [] opcode = 0 -> [self EXCEPT !.pc = "idle", !.ret = Ok]
          [] OTHER ->
                [self EXCEPT !.pc = "idle",
                             !.ret = Err(InvalidOpcode(FormatPadded(opcode, 3)))]

-----------------------------------------------------------------------------
(* assembler.rs *)

OPCODES_ADD == <<"A", "D", "D">>
OPCODES_SUB == <<"S", "U", "B">>
OPCODES_STO == <<"S", "T", "O">>
OPCODES_LDA == <<"L", "D", "A">>
OPCODES_BR == <<"B", "R">>
OPCODES_BRZ == <<"B", "R", "Z">>
OPCODES_BRP == <<"B", "R", "P">>
OPCODES_IN == <<"I", "N">>
OPCODES_OUT == <<"O", "U", "T">>
OPCODES_HLT == <<"H", "L", "T">>
OPCODES_DAT == <<"D", "A", "T">>

\* enum OPCODES
OPCODES == {OPCODES_ADD, OPCODES_SUB, OPCODES_STO, OPCODES_LDA, OPCODES_BR, OPCODES_BRZ,
            OPCODES_BRP, OPCODES_IN, OPCODES_OUT, OPCODES_HLT, OPCODES_DAT}

\* AssemblerError::InvalidOpcode
AsmInvalidOpcode(text) == [kind |-> "InvalidOpcode", text |-> text]

\* AssemblerError::InvalidLabel
InvalidLabel(text) == [kind |-> "InvalidLabel", text |-> text]

\* AssemblerError::InvalidNumberOfMneumonics
InvalidNumberOfMneumonics(n, line) ==
    [kind |-> "InvalidNumberOfMneumonics", val |-> n, text |-> line]

\* AssemblerError::EmptyInput
EmptyInput == [kind |-> "EmptyInput"]

\* AssemblerError::TooManyLinesOfInput
TooManyLinesOfInput(n) == [kind |-> "TooManyLinesOfInput", val |-> n]

\* a call that aborts the process (an unwrap of an Err)
Panic == [tag |-> "Panic"]

\* OPCODES::to_number
to_number(opcode) ==
    CASE opcode = OPCODES_ADD -> ThreeDigitNew(100).num
      [] opcode = OPCODES_SUB -> ThreeDigitNew(200).num
      [] opcode = OPCODES_STO -> ThreeDigitNew(300).num
      [] opcode = OPCODES_LDA -> ThreeDigitNew(500).num
      [] opcode = OPCODES_BR -> ThreeDigitNew(600).num
      [] opcode = OPCODES_BRZ -> ThreeDigitNew(700).num
      [] opcode = OPCODES_BRP -> ThreeDigitNew(800).num
      [] opcode = OPCODES_IN -> ThreeDigitNew(901).num
      [] opcode = OPCODES_OUT -> ThreeDigitNew(902).num
      [] opcode = OPCODES_HLT -> ThreeDigitNew(0).num
      [] opcode = OPCODES_DAT -> ThreeDigitNew(0).num

\* OPCODES::from_str
from_str(opcode) ==
    IF opcode \in OPCODES THEN OkNum(opcode) ELSE Err(AsmInvalidOpcode(opcode))

\* comment_regex.replace_all(line, ""), the regex being #.*$ : the match
\* starts at the first # that no line break follows
StripComment(line) ==
    LET starts == {i \in 1 .. Len(line) :
                     /\ line[i] = "#"
                     /\ \A j \in (i + 1) .. Len(line) : line[j] # "\n"}
    IN  IF starts = {}
        THEN line
        ELSE SubSeq(line, 1, (CHOOSE i \in starts : \A k \in starts : i <= k) - 1)

\* the lines stripped and trimmed, the empty ones kept
StrippedKeepBlank(input) ==
    [i \in 1 .. Len(input) |-> Trim(StripComment(input[i]))]

\* the lines with comments stripped and trimmed (map), the empty ones removed
\* (retain)
Stripped(input) ==
    LET stripped_input == [i \in 1 .. Len(input) |-> Trim(StripComment(input[i]))]
    IN  SelectSeq(stripped_input, LAMBDA line : Len(line) > 0)

\* an insert that keeps the value a key already has
InsertIfAbsent(labels, key, value) ==
    [k \in DOMAIN labels \cup {key} |-> IF k \in DOMAIN labels THEN labels[k] ELSE value]

\* HashMap::insert
Insert(labels, key, value) ==
    [k \in DOMAIN labels \cup {key} |-> IF k = key THEN value ELSE labels[k]]

\* the body of the loop of the first pass for line i (0-based): the label
\* table after the line, or the error returned
FirstPassLine(line, i, labels) ==
    LET parts == SplitWhitespace(line)
    IN  CASE Len(parts) = 1 -> [tag |-> "Ok", labels |-> labels]
          [] Len(parts) = 2 ->
                IF from_str(parts[1]).tag = "Ok"
                THEN [tag |-> "Ok", labels |-> labels]
                ELSE IF from_str(parts[2]).tag = "Ok"
                     THEN [tag |-> "Ok", labels |-> Insert(labels, parts[1], i)]
                     ELSE from_str(parts[2])
          [] Len(parts) = 3 -> [tag |-> "Ok", labels |-> Insert(labels, parts[1], i)]
          [] OTHER -> Err(InvalidNumberOfMneumonics(Len(parts), line))

\* the first pass of assemble: `for i in lo..hi`, the lines taken in order and
\* the loop left at the first error (the range is halved to keep the
\* evaluation shallow)
RECURSIVE FirstPass(_, _, _, _)
FirstPass(stripped_input, lo, hi, labels) ==
    IF hi <= lo
    THEN [tag |-> "Ok", labels |-> labels]
    ELSE IF hi = lo + 1
         THEN FirstPassLine(stripped_input[lo + 1], lo, labels)
         ELSE LET mid == (lo + hi) \div 2
                  first == FirstPass(stripped_input, lo, mid, labels)
              IN  IF first.tag # "Ok"
                  THEN first
                  ELSE FirstPass(stripped_input, mid, hi, first.labels)

\* Encode with line indices counted from 1
EncodeOneBased(opcode, label) ==
    LET value == ThreeDigitNew(label + 1).num
    IN  ThreeDigitAdd(to_number(opcode), value).num

\* opcode.to_number() + value, unwrapped, for the label's line index
Encode(opcode, label) ==
    LET value == ThreeDigitNew(label).num
    IN  ThreeDigitAdd(to_number(opcode), value).num

\* a lookup that takes an operand that is a number for an address
GetOrParse(labels, key) ==
    IF key \in DOMAIN labels
    THEN <<labels[key]>>
    ELSE IF ParseI16(key).tag = "Ok" THEN <<ParseI16(key).num>> ELSE <<>>

\* HashMap::get
Get(labels, key) == IF key \in DOMAIN labels THEN <<labels[key]>> ELSE <<>>

\* the arm of `match parts.len()` that no word comes from
Skip == [tag |-> "Skip"]

\* the body of the loop of the second pass: the word a line gives, its error
\* or its abort
SecondPassLine(parts, labels) ==
    CASE Len(parts) = 1 ->
            IF from_str(parts[1]).tag = "Ok"
            THEN OkNum(to_number(parts[1]))
            ELSE from_str(parts[1])
      [] Len(parts) = 2 ->
            IF from_str(parts[1]).tag = "Ok"
            THEN LET label == Get(labels, parts[2])
                 IN  IF label # <<>>
                     THEN OkNum(Encode(parts[1], label[1]))
                     ELSE Err(InvalidLabel(parts[2]))
            ELSE IF from_str(parts[2]).tag = "Ok"
                 THEN OkNum(to_number(parts[2]))
                 ELSE from_str(parts[2])
      [] Len(parts) = 3 ->
            IF from_str(parts[2]).tag # "Ok"
            THEN from_str(parts[2])
            ELSE IF parts[2] = OPCODES_DAT
                 THEN LET parsed == ParseI16(parts[3])
                      IN  IF parsed.tag # "Ok"
                          THEN Panic
                          ELSE IF ThreeDigitNew(parsed.num).tag # "Ok"
                               THEN Panic
                               ELSE ThreeDigitNew(parsed.num)
                 ELSE LET label == Get(labels, parts[3])
                      IN  IF label # <<>>
                          THEN OkNum(Encode(parts[2], label[1]))
                          ELSE Err(InvalidLabel(parts[3]))
      [] OTHER -> Skip

\* the second pass writing its words from the end of the result
RECURSIVE SecondPassReversed(_, _, _, _, _)
SecondPassReversed(stripped_input, lo, hi, labels, words) ==
    IF hi <= lo
    THEN [tag |-> "Ok", words |-> words]
    ELSE IF hi = lo + 1
         THEN LET word == SecondPassLine(SplitWhitespace(stripped_input[lo + 1]), labels)
              IN  CASE word.tag = "Ok" ->
                          [tag |-> "Ok",
                           words |-> [words EXCEPT ![Len(stripped_input) - lo] = word.num]]
                    [] word.tag = "Skip" -> [tag |-> "Ok", words |-> words]
                    [] OTHER -> word
         ELSE LET mid == (lo + hi) \div 2
                  first == SecondPassReversed(stripped_input, lo, mid, labels, words)
              IN  IF first.tag # "Ok"
                  THEN first
                  ELSE SecondPassReversed(stripped_input, mid, hi, labels, first.words)

\* the second pass of assemble: `for (i, line) in lo..hi`, the lines taken in
\* order, result[i] written for each and the loop left at the first error or
\* abort (the range is halved to keep the evaluation shallow)
RECURSIVE SecondPass(_, _, _, _, _)
SecondPass(stripped_input, lo, hi, labels, words) ==
    IF hi <= lo
    THEN [tag |-> "Ok", words |-> words]
    ELSE IF hi = lo + 1
         THEN LET word == SecondPassLine(SplitWhitespace(stripped_input[lo + 1]), labels)
              IN  CASE word.tag = "Ok" ->
                          [tag |-> "Ok", words |-> [words EXCEPT ![lo + 1] = word.num]]
                    [] word.tag = "Skip" -> [tag |-> "Ok", words |-> words]
                    [] OTHER -> word
         ELSE LET mid == (lo + hi) \div 2
                  first == SecondPass(stripped_input, lo, mid, labels, words)
              IN  IF first.tag # "Ok"
                  THEN first
                  ELSE SecondPass(stripped_input, mid, hi, labels, first.words)

\* assemble in one pass: every line is encoded, with the labels of the lines
\* before it, before the next line is looked at
AssembleOnePass(input) ==
    LET stripped_input == Stripped(input)
        n == Len(stripped_input)
        zeros == [i \in 1 .. n |-> ThreeDigitNew(0).num]
    IN  IF n = 0
        THEN Err(EmptyInput)
        ELSE IF n > 100
             THEN Err(TooManyLinesOfInput(n))
             ELSE LET first == FirstPass(stripped_input, 0, n, <<>>)
                      good == CHOOSE k \in 0 .. n :
                                 /\ FirstPass(stripped_input, 0, k, <<>>).tag = "Ok"
                                 /\ k < n => FirstPass(stripped_input, 0, k + 1, <<>>).tag # "Ok"
                      before == SecondPass(stripped_input, 0, good,
                                           FirstPass(stripped_input, 0, good, <<>>).labels, zeros)
                  IN  IF before.tag # "Ok" THEN before ELSE first

\* Assembler::assemble, as a function of its input
Assemble(input) ==
    LET stripped_input == Stripped(input)
    IN  IF Len(stripped_input) = 0
        THEN Err(EmptyInput)
        ELSE IF Len(stripped_input) > 100
             THEN Err(TooManyLinesOfInput(Len(stripped_input)))
             ELSE LET first == FirstPass(stripped_input, 0, Len(stripped_input), <<>>)
                  IN  IF first.tag # "Ok"
                      THEN first
                      ELSE SecondPass(stripped_input, 0, Len(stripped_input), first.labels,
                                      [i \in 1 .. Len(stripped_input) |-> ThreeDigitNew(0).num])

\* Assembler::assemble
assemble(input) ==
    /\ asm_input' = input
    /\ assembled' = Assemble(input)

-----------------------------------------------------------------------------
(* The inputs the model draws from *)

\* the end-to-end example of the documentation
ExampleSource ==
    << <<"L", "O", "O", "P", " ", "L", "D", "A", " ", "F", "I", "R", "S", "T">>,
       <<"A", "D", "D", " ", "S", "E", "C", "O", "N", "D">>,
       <<"S", "T", "O", " ", "R", "E", "S", "U", "L", "T">>,
       <<"O", "U", "T">>,
       <<"H", "L", "T">>,
       <<"F", "I", "R", "S", "T", " ", "D", "A", "T", " ", "5">>,
       <<"S", "E", "C", "O", "N", "D", " ", "D", "A", "T", " ", "3">>,
       <<"R", "E", "S", "U", "L", "T", " ", "D", "A", "T", " ", "0">> >>

\* an endless loop with a comment, a blank line and a label defined after its use
LoopSource ==
    << <<"#", " ", "l", "o", "o", "p">>,
       <<" ", " ">>,
       <<"B", "R", " ", "T", "O", "P", " ", "#", "x">>,
       <<"T", "O", "P", " ", "B", "R", " ", "T", "O", "P">> >>

\* a reference to a label that is nowhere defined
BadSource == << <<"B", "R", " ", "0">> >>

PipelineSources == {ExampleSource, LoopSource, BadSource}

\* BR 0
ProgBr0 == <<600>>

\* BRP 2, HLT, HLT
ProgBrp == <<802, 0, 0>>

\* SUB 3, BRP 0, HLT, DAT 1
ProgNeg == <<203, 800, 0, 1>>

\* ADD 4, ADD 4, BRP 5, OUT, DAT 999, HLT
ProgOverflow == <<104, 104, 805, 902, 999, 0>>

\* IN, OUT, HLT
ProgEcho == <<901, 902, 0>>

\* IN, OUT, BR 0
ProgEchoLoop == <<901, 902, 600>>

\* SUB 6, IN, STO 7, LDA 7, BRZ 5, BRP 6, DAT 1 (a halt when reached)
ProgMixed == <<206, 901, 307, 507, 705, 806, 1>>

\* BR 99 followed by halts, and OUT in the last mailbox
ProgFull == [i \in 1 .. 100 |-> IF i = 1 THEN 699 ELSE IF i = 100 THEN 902 ELSE 0]

\* one word more than the mailboxes hold
ProgTooLarge == [i \in 1 .. 101 |-> 1]

Programs == {Words(ProgBr0), Words(ProgBrp), Words(ProgNeg), Words(ProgOverflow),
             Words(ProgEcho), Words(ProgEchoLoop), Words(ProgMixed),
             Words(ProgFull), Words(ProgTooLarge)}

InputBatches == {Words(<<7>>), Words(<<5, 999>>)}

\* the lines a user may type, and the failures of the streams
StdinChoices ==
    { External(TRUE, TRUE, <<"0", "0", "7", "\n">>),
      External(TRUE, TRUE, <<"a", "b", "c", "\n">>),
      External(TRUE, TRUE, <<"1", "0", "0", "0", "\n">>),
      External(TRUE, TRUE, <<"-", "5", "\n">>),
      External(TRUE, TRUE, <<"4", "0", "0", "0", "0", "\n">>),
      External(TRUE, TRUE, <<>>),
      External(FALSE, TRUE, <<>>),
      External(TRUE, FALSE, <<>>) }

-----------------------------------------------------------------------------
(* The machine, driven by any caller *)

Init ==
    /\ \E max \in CycleCounts : LMCNew(max)
    /\ asm_input = <<>>
    /\ assembled = Nothing
    /\ num_args = <<>>
    /\ num_result = NotApplied
    /\ trial = NoTrial
    /\ twin = main_new
    /\ paths = [lmc |-> <<>>, main |-> <<>>]

Next ==
    \/ /\ calls < MaxCalls
       /\ \/ \E program \in Programs : load_program(program)
          \/ \E input \in InputBatches : load_input(input)
          \/ \E max \in CycleCounts : set_max_cycles(max)
          \/ reset_counter
          \/ get_output
          \/ execute_program
       /\ UNCHANGED <<asm_vars, num_vars, trial, twin, paths>>
    \/ Cycle(StdinChoices) /\ UNCHANGED <<asm_vars, num_vars, trial, twin, paths>>
    \/ CycleOverflow /\ UNCHANGED <<asm_vars, num_vars, trial, twin, paths>>

Spec == Init /\ [][Next]_vars

\* a round of the loop of execute_program
RunStep == (Cycle(StdinChoices) \/ CycleOverflow) /\ UNCHANGED <<asm_vars, num_vars, trial, twin, paths>>

\* the processor keeps running a program that has not returned
FairSpec == Spec /\ WF_vars(RunStep)

-----------------------------------------------------------------------------
(* The assembler feeding the machine: assemble, load, execute *)

NextPipeline ==
    \/ \E input \in PipelineSources :
           /\ pc = "idle"
           /\ assemble(input)
           /\ UNCHANGED <<machine_vars, num_vars, trial, twin, paths>>
    \/ /\ calls < MaxCalls
       /\ assembled.tag = "Ok"
       /\ load_program(assembled.words)
       /\ UNCHANGED <<asm_vars, num_vars, trial, twin, paths>>
    \/ /\ calls < MaxCalls
       /\ execute_program
       /\ UNCHANGED <<asm_vars, num_vars, trial, twin, paths>>
    \/ Cycle(StdinChoices) /\ UNCHANGED <<asm_vars, num_vars, trial, twin, paths>>
    \/ CycleOverflow /\ UNCHANGED <<asm_vars, num_vars, trial, twin, paths>>

SpecPipeline == Init /\ [][NextPipeline]_vars

-----------------------------------------------------------------------------
(* One program on a fresh machine, for the instruction set *)

\* SUB 5, STO 6, LDA 6, BRP 5, HLT, DAT 1 (a halt when reached), DAT 0
ProgStoreLoad == <<205, 306, 506, 805, 0, 1, 0>>

\* ADD 5, ADD 5, SUB 6, SUB 6, HLT, DAT 999, DAT 998
ProgFlags == <<105, 105, 206, 206, 0, 999, 998>>

\* SUB 5, IN, BRP 4, HLT, HLT, DAT 1
ProgNegIn == <<205, 901, 804, 0, 0, 1>>

\* ADD 5, BRZ 3, ADD 6, BRZ 5, HLT, DAT 999 (no instruction when reached), DAT 1
ProgZero == <<105, 703, 106, 705, 0, 999, 1>>

\* SUB 98, BR 99, halts, DAT 1 in mailbox 98 and `word` in mailbox 99
ProgWrap(word) ==
    [i \in 1 .. 100 |->
        IF i = 1 THEN 298
        ELSE IF i = 2 THEN 699
        ELSE IF i = 99 THEN 1
        ELSE IF i = 100 THEN word
        ELSE 0]

\* the instructions put in mailbox 99: ADD 98, SUB 98, STO 97, LDA 98, IN, OUT,
\* BRZ 50 and BRP 50 (neither taken), BR 50
LastWords == {198, 298, 397, 598, 901, 902, 750, 850, 650}

\* words that are no instruction
InvalidWords == {400, 450, 499, 900, 903, 905, 999}

InstrPrograms ==
    {Words(ProgStoreLoad), Words(ProgFlags), Words(ProgNegIn), Words(ProgZero)}
    \cup {Words(ProgWrap(word)) : word \in LastWords}
    \cup {Words(<<word>>) : word \in InvalidWords}

NextInstr ==
    \/ /\ calls < MaxCalls
       /\ \/ /\ hist.stage = "fresh"
             /\ \E program \in InstrPrograms : load_program(program)
          \/ \E input \in InputBatches : load_input(input)
          \/ execute_program
       /\ UNCHANGED <<asm_vars, num_vars, trial, twin, paths>>
    \/ Cycle(StdinChoices) /\ UNCHANGED <<asm_vars, num_vars, trial, twin, paths>>
    \/ CycleOverflow /\ UNCHANGED <<asm_vars, num_vars, trial, twin, paths>>

SpecInstr == Init /\ [][NextInstr]_vars

-----------------------------------------------------------------------------
(* The machines of lmc.rs and of main.rs, on one program and one stdin *)

\* Both machines are constructed, load the same program and execute it, round
\* by round; a line read from stdin in a round is the same for both. The
\* machine of main.rs has no cycle limit, and runs on after the other returned.
NextTwins ==
    \/ /\ calls = 0
       /\ \E program \in InstrPrograms :
              /\ load_program(program)
              /\ twin' = main_load_program(twin, program)
       /\ UNCHANGED <<asm_vars, num_vars, trial, paths>>
    \/ /\ calls = 1
       /\ execute_program
       /\ twin' = main_execute_program(twin)
       /\ UNCHANGED <<asm_vars, num_vars, trial, paths>>
    \/ /\ Cycle(StdinChoices)
       /\ \E ext \in IF last'.ext # <<>> THEN {last'.ext} ELSE {<<e>> : e \in StdinChoices} :
              twin' = IF twin.pc = "running" THEN main_cycle(twin, ext) ELSE twin
       /\ paths' = [lmc |-> IF last'.word # -1
                            THEN Append(paths.lmc, counter.value)
                            ELSE paths.lmc,
                    main |-> IF twin.pc = "running"
                             THEN Append(paths.main, twin.counter.value)
                             ELSE paths.main]
       /\ UNCHANGED <<asm_vars, num_vars, trial>>
    \/ /\ pc = "idle"
       /\ twin.pc = "running"
       /\ Len(paths.main) < 2 ^ CyclesWidth
       /\ \E e \in StdinChoices : twin' = main_cycle(twin, <<e>>)
       /\ paths' = [paths EXCEPT !.main = Append(@, twin.counter.value)]
       /\ UNCHANGED <<machine_vars, asm_vars, num_vars, trial>>
    \/ CycleOverflow /\ UNCHANGED <<asm_vars, num_vars, trial, twin, paths>>

SpecTwins == Init /\ [][NextTwins]_vars

-----------------------------------------------------------------------------
(* A trial repeated on one machine: load_program, load_input, execute_program
   to a halt, then reset_counter, load_input of the same values and
   execute_program again *)

\* ADD 3, OUT, HLT, DAT 5
ProgSum == <<103, 902, 0, 5>>

TrialPrograms == {Words(ProgEcho), Words(ProgSum), Words(ProgBr0)}

NextTrials ==
    \/ /\ calls = 0
       /\ \E program \in TrialPrograms : load_program(program)
       /\ UNCHANGED <<asm_vars, num_vars, trial, twin, paths>>
    \/ /\ calls = 1
       /\ \E input \in InputBatches :
             /\ load_input(input)
             /\ trial' = [trial EXCEPT !.batch = input]
       /\ UNCHANGED <<asm_vars, num_vars, twin, paths>>
    \/ /\ calls \in {2, 5}
       /\ execute_program
       /\ UNCHANGED <<asm_vars, num_vars, trial, twin, paths>>
    \/ /\ calls = 3
       /\ result.ret = Ok
       /\ reset_counter
       /\ trial' = [trial EXCEPT !.output = out_basket, !.ret = result.ret]
       /\ UNCHANGED <<asm_vars, num_vars, twin, paths>>
    \/ /\ calls = 4
       /\ load_input(trial.batch)
       /\ UNCHANGED <<asm_vars, num_vars, trial, twin, paths>>
    \/ Cycle(StdinChoices) /\ UNCHANGED <<asm_vars, num_vars, trial, twin, paths>>
    \/ CycleOverflow /\ UNCHANGED <<asm_vars, num_vars, trial, twin, paths>>

SpecTrials == Init /\ [][NextTrials]_vars

-----------------------------------------------------------------------------
(* The assembler on its own *)

\* lines taken from the catalogue in one program
MaxLines == 3

TokA == <<"A">>
TokB == <<"B">>
TokC == <<"C">>
TokL == <<"L">>
TokU == <<"U">>

\* a line of source: its tokens with one space between them
RECURSIVE Line(_)
Line(tokens) ==
    IF Len(tokens) = 1
    THEN tokens[1]
    ELSE tokens[1] \o <<" ">> \o Line(Tail(tokens))

\* a line indented and followed by a comment
Commented(line) == <<" ", "\t">> \o line \o <<" ", " ", "#", " ", "x", " ", "#", "y">>

\* the lines short programs are made of
CatalogueLines ==
    { Line(<<OPCODES_HLT>>),
      Line(<<TokA, OPCODES_DAT, <<"5">>>>),
      Line(<<TokA, OPCODES_OUT>>),
      Line(<<OPCODES_ADD, TokA>>),
      Line(<<TokB, OPCODES_BR, TokA>>),
      Line(<<OPCODES_BR, <<"0">>>>),
      Commented(Line(<<OPCODES_LDA, TokB>>)),
      <<" ", "#", " ", "c">>,
      Line(<<TokA, OPCODES_DAT, <<"a", "b", "c">>>>),
      Line(<<OPCODES_ADD, TokA, TokB, TokC>>),
      Commented(Line(<<OPCODES_SUB, TokA, TokB, TokC>>)),
      Line(<<<<"F", "O", "O">>>>) }

\* every program of at most MaxLines catalogue lines, the one of no line included
ShortSources == UNION {[1 .. n -> CatalogueLines] : n \in 0 .. MaxLines}

\* single lines for the operand of DAT, and a name defined three times with a
\* reference before, between and after the definitions
OtherSources ==
    { << Line(<<TokA, OPCODES_DAT, <<"-", "5">>>>) >>,
      << Line(<<TokA, OPCODES_DAT, <<"1", "0", "0", "0">>>>) >>,
      << Line(<<TokA, OPCODES_DAT, <<"9", "9", "9">>>>) >>,
      << <<>>, <<" ", " ">>, <<"#">> >>,
      << Line(<<<<"0">>, OPCODES_DAT, <<"7">>>>), Line(<<OPCODES_BR, <<"0">>>>) >>,
      << Line(<<OPCODES_ADD, TokA>>),
         Line(<<TokA, OPCODES_DAT, <<"5">>>>),
         Line(<<TokB, OPCODES_SUB, TokA>>),
         Line(<<TokA, OPCODES_OUT>>),
         Commented(Line(<<OPCODES_LDA, TokA>>)),
         Line(<<TokA, OPCODES_HLT>>),
         Line(<<OPCODES_STO, TokA>>) >> }

\* n lines of HLT, a comment line after every `every`-th of them
HaltLines(n, every) ==
    [i \in 1 .. (n + n \div every) |->
        IF i % (every + 1) = 0 THEN <<"#", " ", "c">> ELSE Line(<<OPCODES_HLT>>)]

\* programs at the limit of 100 lines, with and without lines that do not count
LongSources ==
    { HaltLines(99, 200), HaltLines(100, 200), HaltLines(101, 200), HaltLines(102, 200),
      HaltLines(100, 1), HaltLines(100, 10), HaltLines(101, 1) }

\* the line indices a label is bound to in the programs below
LabelIndices == {0, 1, 98, 99}

\* the line that uses label L: `MN L`, or `U MN L`
UseLine(mnemonic, three) ==
    IF three THEN Line(<<TokU, mnemonic, TokL>>) ELSE Line(<<mnemonic, TokL>>)

\* L used on line 0 and defined on line k
UseBefore(mnemonic, three, k) ==
    [i \in 1 .. (k + 1) |->
        IF i = 1 THEN UseLine(mnemonic, three)
        ELSE IF i = k + 1 THEN Line(<<TokL, OPCODES_HLT>>)
        ELSE Line(<<OPCODES_HLT>>)]

\* L defined on line k and used on line k + 1
UseAfter(mnemonic, three, k) ==
    [i \in 1 .. (k + 2) |->
        IF i = k + 1 THEN Line(<<TokL, OPCODES_HLT>>)
        ELSE IF i = k + 2 THEN UseLine(mnemonic, three)
        ELSE Line(<<OPCODES_HLT>>)]

\* L defined and used on line k: `L MN L`
UseSelf(mnemonic, k) ==
    [i \in 1 .. (k + 1) |->
        IF i = k + 1 THEN Line(<<TokL, mnemonic, TokL>>) ELSE Line(<<OPCODES_HLT>>)]

\* every mnemonic with a label operand bound to every index of LabelIndices
LabelSources ==
    LET forms == {<<m, FALSE>> : m \in OPCODES} \cup {<<m, TRUE>> : m \in OPCODES \ {OPCODES_DAT}}
    IN  {UseBefore(f[1], f[2], k) : f \in forms, k \in LabelIndices \ {0}}
        \cup {UseAfter(f[1], f[2], k) : f \in forms, k \in LabelIndices \ {99}}
        \cup {UseSelf(m, k) : m \in OPCODES \ {OPCODES_DAT}, k \in LabelIndices}

AssemblerSources == ShortSources \cup OtherSources \cup LongSources \cup LabelSources

\* one call of assemble on any of the sources
NextAssembler ==
    \E input \in AssemblerSources :
        /\ assembled = Nothing
        /\ assemble(input)
        /\ UNCHANGED <<machine_vars, num_vars, trial, twin, paths>>

InitAssembler ==
    /\ LMCNew(0)
    /\ asm_input = <<>>
    /\ assembled = Nothing
    /\ num_args = <<>>
    /\ num_result = NotApplied
    /\ trial = NoTrial
    /\ twin = main_new
    /\ paths = [lmc |-> <<>>, main |-> <<>>]

SpecAssembler == InitAssembler /\ [][NextAssembler]_vars

-----------------------------------------------------------------------------
(* The assembler on programs with faulty lines *)

TokFoo == <<"F", "O", "O">>
TokBar == <<"B", "A", "R">>

\* two lines that assemble, and lines at fault: an undefined label unless L
\* is defined, an unknown mnemonic alone and in the middle of three tokens,
\* a DAT whose operand is no number, two tokens neither of which is a
\* mnemonic, and four and five tokens
FaultLines ==
    { Line(<<OPCODES_HLT>>),
      Line(<<TokL, OPCODES_HLT>>),
      Line(<<OPCODES_BR, TokL>>),
      Line(<<TokA, OPCODES_ADD, TokU>>),
      Line(<<TokFoo>>),
      Line(<<TokA, TokBar, TokB>>),
      Line(<<TokB, OPCODES_DAT, <<"a", "b", "c">>>>),
      Line(<<TokA, TokB>>),
      Commented(Line(<<OPCODES_ADD, TokA, TokB, TokC>>)),
      Line(<<TokC, TokC, TokC, TokC, TokC>>) }

\* every program of 1 to MaxLines of these lines
FaultSources == UNION {[1 .. n -> FaultLines] : n \in 1 .. MaxLines}

\* one call of assemble on any of them
NextPasses ==
    \E input \in FaultSources :
        /\ assembled = Nothing
        /\ assemble(input)
        /\ UNCHANGED <<machine_vars, num_vars, trial, twin, paths>>

SpecPasses == InitAssembler /\ [][NextPasses]_vars

-----------------------------------------------------------------------------
(* The number types on their own *)

\* the second operands of the additions and subtractions tried
ArithOperands == {0, 1, 2, 499, 500, 501, 998, 999}

\* ThreeDigitNumber::new applied to the operand drawn
ApplyNew ==
    /\ num_args.kind = "new"
    /\ num_result = NotApplied
    /\ num_result' = Returned("new", num_args, ThreeDigitNew(num_args.value))
    /\ UNCHANGED <<num_args, machine_vars, asm_vars, trial, twin, paths>>

\* self + other applied to the operands drawn
ApplyAdd ==
    /\ num_args.kind = "arith"
    /\ num_result = NotApplied
    /\ num_result' = Returned("add", num_args, ThreeDigitAdd(num_args.self, num_args.other))
    /\ UNCHANGED <<num_args, machine_vars, asm_vars, trial, twin, paths>>

\* self - other applied to the operands drawn
ApplySub ==
    /\ num_args.kind = "arith"
    /\ num_result = NotApplied
    /\ num_result' = Returned("sub", num_args, ThreeDigitSub(num_args.self, num_args.other))
    /\ UNCHANGED <<num_args, machine_vars, asm_vars, trial, twin, paths>>

NumbersIdle ==
    /\ LMCNew(0)
    /\ asm_input = <<>>
    /\ assembled = Nothing
    /\ num_result = NotApplied
    /\ trial = NoTrial
    /\ twin = main_new
    /\ paths = [lmc |-> <<>>, main |-> <<>>]

InitNew ==
    /\ NumbersIdle
    /\ num_args \in {[kind |-> "new", value |-> v] : v \in I16}

SpecNew == InitNew /\ [][ApplyNew]_vars

InitArith ==
    /\ NumbersIdle
    /\ num_args \in
          {[kind |-> "arith", self |-> ThreeDigitNumber(a, f), other |-> ThreeDigitNumber(b, g)] :
             a \in 0 .. ThreeDigitMax, b \in ArithOperands, f \in Flags, g \in Flags}

NextArith == ApplyAdd \/ ApplySub

SpecArith == InitArith /\ [][NextArith]_vars

-----------------------------------------------------------------------------
(* Properties *)

ExampleWords == Words(<<505, 106, 307, 902, 0, 5, 3, 0>>)

\* C1: assembling the eight lines of the example gives exactly the words
\* 505 106 307 902 000 005 003 000; a fresh machine loaded with them and run
\* with a cycle maximum above 5 returns Ok, with 8 in the output slot and in
\* mailbox 7 (and is still running only before its fifth cycle).
C1_Example ==
    /\ asm_input = ExampleSource => assembled = [tag |-> "Ok", words |-> ExampleWords]
    /\ (hist = History("run", ExampleWords) /\ max_cycles > 5) =>
          /\ pc \in {"running", "idle"}
          /\ pc = "running" => cycles < 5
          /\ pc = "idle" =>
                /\ result = Returned("execute_program", <<>>, Ok)
                /\ out_basket = <<ThreeDigitNumber(8, "None")>>
                /\ mailboxes[7].value = 8

\* the example has been assembled, loaded into a fresh machine and run to its halt
C1_Witness ==
    /\ asm_input = ExampleSource
    /\ assembled.tag = "Ok"
    /\ hist = History("run", assembled.words)
    /\ max_cycles > 5
    /\ pc = "idle"
    /\ result.ret = Ok
    /\ out_basket # <<>>

\* execute_program has returned and no call has been made since
Returns == pc = "idle" /\ result.op = "execute_program"

\* C2: with BR 0 in mailbox 0, the counter at 0 and a maximum N >= 1,
\* execute_program is still running only while its cycle count is below N, and
\* it returns MaxCyclesHit(N) with the cycle count at N: never Ok, never
\* another error, never an abort.
C2_RunawayGuard ==
    (mailboxes[0].value = 600 /\ counter.value = 0 /\ max_cycles >= 1) =>
       /\ pc # "panicked"
       /\ pc = "running" => cycles < max_cycles
       /\ Returns => /\ result.ret = Err(MaxCyclesHit(max_cycles))
                     /\ cycles = max_cycles

\* BR 0 has run into a maximum above 1
C2_Witness ==
    /\ Returns
    /\ mailboxes[0].value = 600
    /\ counter.value = 0
    /\ max_cycles > 1
    /\ result.ret = Err(MaxCyclesHit(max_cycles))

\* C3: every call of execute_program eventually returns (Ok or an LMCError),
\* whatever the memory, the registers, the queue and the maximum, 0 included.
C3_Returns == (pc = "running") ~> (pc = "idle")

\* C4: BRP sets the counter to its operand unless the machine flag is NEG, in
\* which case it adds 1 to the counter; the accumulator plays no part.
C4_Brp ==
    last.word \div 100 = 8 =>
       counter.value = IF last.flag = "NEG"
                       THEN (last.counter + 1) % 100
                       ELSE last.word % 100

\* BRP has jumped with the accumulator at 0 and no flag
C4_Witness ==
    /\ last.word \div 100 = 8
    /\ last.flag = "None"
    /\ last.calc = 0
    /\ counter.value = last.word % 100
    /\ counter.value # (last.counter + 1) % 100

\* C5: for a, b in 0..999, whatever flags the operands carry, a + b is Ok
\* with value (a + b) mod 1000 and flag OVERFLOW iff a + b > 999, none
\* otherwise; a - b is Ok with the value in 0..999 congruent to a - b modulo
\* 1000 and flag NEG iff a < b, none otherwise.
C5_Arithmetic ==
    LET a == num_args.self.value
        b == num_args.other.value
        r == num_result.ret
    IN  /\ num_result.op = "add" =>
              /\ r.tag = "Ok"
              /\ r.num.value = (a + b) % 1000
              /\ r.num.flag = IF a + b > 999 THEN "OVERFLOW" ELSE "None"
        /\ num_result.op = "sub" =>
              /\ r.tag = "Ok"
              /\ r.num.value \in 0 .. 999
              /\ r.num.value \in {a - b, a - b + 1000}
              /\ r.num.flag = IF a < b THEN "NEG" ELSE "None"

\* a subtraction of equal values whose operands carry flags has been made
C5_Witness ==
    /\ num_result.op = "sub"
    /\ num_args.self.value = num_args.other.value
    /\ num_args.self.flag = "NEG"
    /\ num_args.other.flag = "OVERFLOW"
    /\ num_result.ret = OkNum(ThreeDigitNumber(0, "None"))

\* C6: for every 16-bit signed v, ThreeDigitNumber::new(v) is Ok with value v
\* and no flag when 0 <= v <= 999, and otherwise fails with OutOfBounds
\* reporting v itself, negative v included.
C6_New ==
    num_result.op = "new" =>
       LET v == num_args.value
       IN  IF 0 <= v /\ v <= 999
           THEN num_result.ret = OkNum(ThreeDigitNumber(v, "None"))
           ELSE num_result.ret = Err(OutOfBounds(<<0, 0, 0, v>>))

\* text that denotes an integer: an optional sign and at least one digit
IntegerText(t) ==
    /\ t # <<>>
    /\ LET body == IF Head(t) \in {"+", "-"} THEN Tail(t) ELSE t
       IN  body # <<>> /\ \A i \in 1 .. Len(body) : body[i] \in Digits

\* the integer a run of digits denotes
RECURSIVE DecimalValue(_)
DecimalValue(ds) ==
    IF ds = <<>> THEN 0
    ELSE 10 * DecimalValue(SubSeq(ds, 1, Len(ds) - 1)) + ToDigit(ds[Len(ds)])

\* the integer a text denotes
Denoted(t) ==
    IF Head(t) = "-" THEN 0 - DecimalValue(Tail(t))
    ELSE IF Head(t) = "+" THEN DecimalValue(Tail(t))
    ELSE DecimalValue(t)

\* C7: IN with an empty queue reads one line: one denoting an integer in
\* 0..999 becomes the accumulator, with no flag, and the counter moves on by
\* 1; one that denotes no integer fails with IOError; one denoting an integer
\* outside 0..999 (1000, a negative one, one beyond 16 bits) fails with
\* NumberError.
C7_In ==
    (/\ last.word = 901
     /\ last.queue = <<>>
     /\ last.ext # <<>>
     /\ last.ext[1].flush
     /\ last.ext[1].read) =>
       LET t == Trim(last.ext[1].text)
       IN  IF ~IntegerText(t)
           THEN /\ Returns
                /\ result.ret.tag = "Err"
                /\ result.ret.err.kind = "IOError"
           ELSE IF Denoted(t) \in 0 .. 999
                THEN /\ pc = "running"
                     /\ calculator = ThreeDigitNumber(Denoted(t), "None")
                     /\ counter.value = (last.counter + 1) % 100
                ELSE /\ Returns
                     /\ result.ret.tag = "Err"
                     /\ result.ret.err.kind = "NumberError"

\* a call of load_program is made in this step
LoadsProgram == result'.op = "load_program" /\ calls' = calls + 1

\* C9: a successful load_program(words) has at most 100 words, sets mailbox i
\* to words[i] for i < len(words) and leaves the mailboxes from len(words) on,
\* the counter, the accumulator, the flag, the input queue and the output slot
\* as they were.
C9_LoadFrame ==
    [][(LoadsProgram /\ result'.ret = Ok) =>
          LET words == result'.arg
          IN  /\ Len(words) <= 100
              /\ \A i \in Addresses :
                    mailboxes'[i] = IF i < Len(words) THEN words[i + 1] ELSE mailboxes[i]
              /\ UNCHANGED <<counter, calculator, flag, in_basket, out_basket>>]_vars

\* a short program has been loaded over a longer one, whose tail is still there
C9_Witness ==
    /\ result.op = "load_program"
    /\ result.ret = Ok
    /\ Len(result.arg) < 100
    /\ \A i \in 1 .. Len(result.arg) : mailboxes[i - 1] = result.arg[i]
    /\ \E i \in Addresses : i >= Len(result.arg) /\ mailboxes[i].value # 0

\* C10: load_program(words) with more than 100 words returns
\* ProgramTooLarge(len(words)) and leaves the machine, all mailboxes included,
\* as it was; with exactly 100 words it succeeds.
C10_TooLarge ==
    [][LoadsProgram =>
          LET words == result'.arg
          IN  /\ Len(words) > 100 =>
                    /\ result'.ret = Err(ProgramTooLarge(Len(words)))
                    /\ UNCHANGED <<mailboxes, counter, calculator, flag, in_basket,
                                   out_basket, max_cycles>>
              /\ Len(words) = 100 => result'.ret = Ok]_vars

\* a program of 101 words has been refused by a machine that holds one of 100 words
C10_Witness ==
    /\ result.op = "load_program"
    /\ Len(result.arg) = 101
    /\ result.ret = Err(ProgramTooLarge(101))
    /\ mailboxes[0].value = 699
    /\ mailboxes[99].value = 902

\* C11: the input queue is first in, first out across calls: the values
\* load_input was given, in the order given, are the values IN has taken from
\* the queue, in the order taken, followed by the values still queued; and an
\* IN that found the queue non-empty has put its front in the accumulator and
\* removed just that.
C11_Fifo ==
    /\ inputs.loaded = inputs.consumed \o in_basket
    /\ (last.word = 901 /\ last.queue # <<>>) =>
          /\ calculator = Head(last.queue)
          /\ in_basket = Tail(last.queue)

\* two runs have each taken one value of a batch of two: what the first run
\* left in the queue was there for the second
C11_Witness ==
    /\ Returns
    /\ mailboxes[0].value = 901
    /\ max_cycles = 4
    /\ calls = 4
    /\ Len(inputs.consumed) = 2
    /\ inputs.consumed = inputs.loaded
    /\ in_basket = <<>>

\* a call of reset_counter is made in this step
ResetsCounter == result'.op = "reset_counter" /\ calls' = calls + 1

\* C12: reset_counter sets the counter to 0 and leaves the mailboxes, the
\* accumulator, the flag, the input queue, the output slot and the cycle
\* maximum as they were, in whatever state it is called.
C12_ResetFrame ==
    [][ResetsCounter =>
          /\ counter'.value = 0
          /\ UNCHANGED <<mailboxes, calculator, flag, in_basket, out_basket, max_cycles>>]_vars

\* reset_counter has been called after a run that moved the counter, wrote
\* the output slot and left a value queued
C12_Witness ==
    /\ result.op = "reset_counter"
    /\ counter.value = 0
    /\ out_basket # <<>>
    /\ in_basket # <<>>
    /\ calculator.value # 0

\* this step is a fetch-execute cycle that executes OUT
ExecutesOut == pc = "running" /\ pc' # "panicked" /\ last'.word = 902

\* C13: the output slot is none after construction, a cycle that executes OUT
\* sets it to the accumulator, and no other step (a call of the owner, another
\* instruction, a halt, a fault) changes it.
C13_OutputSlot ==
    /\ (calls = 0 => out_basket = <<>>)
    /\ [][out_basket' = IF ExecutesOut THEN <<calculator>> ELSE out_basket]_vars

\* a second OUT has overwritten the value the first one left
C13_Witness ==
    /\ last.word = 902
    /\ Len(inputs.consumed) = 2
    /\ inputs.consumed[1] # inputs.consumed[2]
    /\ out_basket = <<inputs.consumed[2]>>

\* assemble has been called
Assembled == assembled # Nothing

\* C14: assemble returns Ok or one of the AssemblerError values for every
\* input and never aborts, a line `L DAT x` whose x is no integer, negative or
\* above 999 included.
C14_Total ==
    Assembled =>
       \/ assembled.tag = "Ok"
       \/ /\ assembled.tag = "Err"
          /\ assembled.err.kind \in {"InvalidOpcode", "InvalidLabel", "InvalidNumberOfMneumonics",
                                     "EmptyInput", "TooManyLinesOfInput"}

\* a source line on which only white space stands before the first #
Blank(raw) ==
    \A i \in 1 .. Len(raw) : raw[i] \in Whitespace \/ \E j \in 1 .. i : raw[j] = "#"

\* the source lines that remain: those that are not blank or comment only
Remaining(input) == SelectSeq(input, LAMBDA raw : ~Blank(raw))

\* the tokens of the lines that remain
SourceLines(input) ==
    LET raw == Remaining(input)
    IN  [i \in 1 .. Len(raw) |-> SplitWhitespace(StripComment(raw[i]))]

Least(S) == CHOOSE i \in S : \A j \in S : i <= j

Greatest(S) == CHOOSE i \in S : \A j \in S : j <= i

\* C15: with n the number of lines that are not blank or comment only,
\* assemble fails with EmptyInput iff n = 0 and with TooManyLinesOfInput(n) iff
\* n > 100; 100 such lines are accepted however many blank and comment lines
\* stand between them.
C15_LineLimit ==
    Assembled =>
       LET n == Len(Remaining(asm_input))
       IN  /\ (assembled = Err(EmptyInput)) <=> (n = 0)
           /\ (assembled.tag = "Err" /\ assembled.err.kind = "TooManyLinesOfInput") <=> (n > 100)
           /\ (n > 100) => (assembled = Err(TooManyLinesOfInput(n)))

\* 100 lines with a comment line after each have been assembled
C15_Witness ==
    /\ Assembled
    /\ Len(asm_input) = 200
    /\ Len(Remaining(asm_input)) = 100
    /\ assembled.tag = "Ok"
    /\ Len(assembled.words) = 100

\* a two-token line without a mnemonic: the first pass returns InvalidOpcode for it
UnknownPair(parts) == Len(parts) = 2 /\ parts[1] \notin OPCODES /\ parts[2] \notin OPCODES

\* C16: if a remaining line has a number of tokens other than 1, 2 or 3,
\* assemble fails; and for the first such line, no line before it being in
\* error in the first pass, the error is InvalidNumberOfMneumonics with the
\* line's token count and the source line as the caller supplied it.
C16_TokenCount ==
    (Assembled /\ Len(Remaining(asm_input)) \in 1 .. 100) =>
       LET raw == Remaining(asm_input)
           lines == SourceLines(asm_input)
           miscounted == {i \in 1 .. Len(lines) : Len(lines[i]) \notin {1, 2, 3}}
       IN  miscounted # {} =>
              /\ assembled.tag = "Err"
              /\ LET i == Least(miscounted)
                 IN  (\A j \in 1 .. (i - 1) : ~UnknownPair(lines[j])) =>
                        assembled = Err(InvalidNumberOfMneumonics(Len(lines[i]), raw[i]))

\* the line defines the label `name`
Defines(parts, name) ==
    /\ parts[1] = name
    /\ \/ Len(parts) = 3
       \/ Len(parts) = 2 /\ parts[1] \notin OPCODES /\ parts[2] \in OPCODES

\* the lines (from 1) that define `name`
Definitions(lines, name) == {i \in 1 .. Len(lines) : Defines(lines[i], name)}

\* the label table: every defined name with the index (from 0) of the last line defining it
LabelTable(lines) ==
    LET names == {lines[i][1] : i \in {j \in 1 .. Len(lines) : Defines(lines[j], lines[j][1])}}
    IN  [name \in names |-> Greatest(Definitions(lines, name)) - 1]

\* C17: when assemble succeeds its output has one word for each remaining
\* line, and the word at index i is the encoding of the i-th remaining line;
\* the blank and comment lines take no index.
C17_OneWordPerLine ==
    (Assembled /\ assembled.tag = "Ok") =>
       LET lines == SourceLines(asm_input)
           labels == LabelTable(lines)
       IN  /\ Len(assembled.words) = Len(lines)
           /\ \A i \in 1 .. Len(lines) :
                 OkNum(assembled.words[i]) = SecondPassLine(lines[i], labels)

\* a program with a comment line among its lines has been assembled, its
\* words differing from line to line
C17_Witness ==
    /\ Assembled
    /\ assembled.tag = "Ok"
    /\ Len(assembled.words) = 2
    /\ Len(asm_input) = 3
    /\ Blank(asm_input[2])
    /\ assembled.words[1] # assembled.words[2]

\* the mnemonic and the operand of a line that has a label operand:
\* `MN operand` or `label MN operand` with MN other than DAT
Use(parts) ==
    IF Len(parts) = 2 /\ parts[1] \in OPCODES
    THEN <<parts[1], parts[2]>>
    ELSE IF Len(parts) = 3 /\ parts[2] \in OPCODES \ {OPCODES_DAT}
         THEN <<parts[2], parts[3]>>
         ELSE <<>>

\* C18: in the output of a successful assemble, the word of every line with
\* a label operand bound to line index k is base code + k as an integer, at
\* most 999, with the hundreds digit of the base code; for every mnemonic,
\* IN and OUT included, and every k up to 99, the label defined before or
\* after its use.
C18_LabelWord ==
    (Assembled /\ assembled.tag = "Ok") =>
       LET lines == SourceLines(asm_input)
           labels == LabelTable(lines)
       IN  \A i \in 1 .. Len(lines) :
              LET use == Use(lines[i])
              IN  (use # <<>> /\ use[2] \in DOMAIN labels) =>
                     LET base == to_number(use[1]).value
                         k == labels[use[2]]
                     IN  /\ k \in 0 .. 99
                         /\ base + k <= 999
                         /\ assembled.words[i].value = base + k
                         /\ assembled.words[i].value \div 100 = base \div 100

\* a line assemble finds nothing wrong with, its label operand apart
WellFormed(parts) ==
    \/ Len(parts) = 1 /\ parts[1] \in OPCODES
    \/ Len(parts) = 2 /\ (parts[1] \in OPCODES \/ parts[2] \in OPCODES)
    \/ /\ Len(parts) = 3
       /\ parts[2] \in OPCODES
       /\ parts[2] = OPCODES_DAT =>
             /\ ParseI16(parts[3]).tag = "Ok"
             /\ ParseI16(parts[3]).num \in 0 .. 999

\* the lines whose label operand no line defines
Undefined(lines) ==
    {i \in 1 .. Len(lines) :
        Use(lines[i]) # <<>> /\ Use(lines[i])[2] \notin DOMAIN LabelTable(lines)}

\* C19: a line whose label operand is not a defined label, a number such as
\* the 0 of `BR 0` included, makes assemble fail, and with InvalidLabel(that
\* operand) for the first such line when nothing else is wrong with the program.
C19_InvalidLabel ==
    (Assembled /\ Len(Remaining(asm_input)) \in 1 .. 100) =>
       LET lines == SourceLines(asm_input)
       IN  Undefined(lines) # {} =>
              /\ assembled.tag # "Ok"
              /\ (\A i \in 1 .. Len(lines) : WellFormed(lines[i])) =>
                    assembled = Err(InvalidLabel(Use(lines[Least(Undefined(lines))])[2]))

\* `BR 0` has been refused after a line that defines a label and one that uses it
C19_Witness ==
    /\ Assembled
    /\ Len(asm_input) = 3
    /\ SplitWhitespace(asm_input[1]) = <<TokA, OPCODES_DAT, <<"5">>>>
    /\ SplitWhitespace(asm_input[2]) = <<OPCODES_ADD, TokA>>
    /\ SplitWhitespace(asm_input[3]) = <<OPCODES_BR, <<"0">>>>
    /\ assembled = Err(InvalidLabel(<<"0">>))

\* the names defined on several lines
Duplicated(lines) ==
    {name \in DOMAIN LabelTable(lines) : Cardinality(Definitions(lines, name)) > 1}

\* C20: when a name is defined on several lines the assembly does not fail
\* for it (it succeeds if nothing else is wrong), and every reference to the
\* name, before, between or after its definitions, resolves to the index of
\* the last line defining it.
C20_LastDefinition ==
    (Assembled /\ Len(Remaining(asm_input)) \in 1 .. 100) =>
       LET lines == SourceLines(asm_input)
       IN  Duplicated(lines) # {} =>
              /\ ((\A i \in 1 .. Len(lines) : WellFormed(lines[i])) /\ Undefined(lines) = {}) =>
                    assembled.tag = "Ok"
              /\ assembled.tag = "Ok" =>
                    \A i \in 1 .. Len(lines) :
                       LET use == Use(lines[i])
                       IN  (use # <<>> /\ use[2] \in Duplicated(lines)) =>
                              assembled.words[i] =
                                 Encode(use[1], Greatest(Definitions(lines, use[2])) - 1)

\* a program has been assembled that refers to a name before its first
\* definition, between two of its definitions and after its last
C20_Witness ==
    /\ Assembled
    /\ assembled.tag = "Ok"
    /\ LET lines == SourceLines(asm_input)
       IN  \E name \in Duplicated(lines) :
              LET defs == Definitions(lines, name)
                  uses == {i \in 1 .. Len(lines) :
                             Use(lines[i]) # <<>> /\ Use(lines[i])[2] = name}
              IN  /\ \E i \in uses : i < Least(defs)
                  /\ \E i \in uses : Least(defs) < i /\ i < Greatest(defs)
                  /\ \E i \in uses : Greatest(defs) < i

\* C21: in every reachable state the mailboxes are 100, every mailbox, the
\* accumulator, every queued input and the output slot hold a value in
\* 0..999 and the counter one in 0..99, so the fetch and every operand
\* address a mailbox.
C21_Ranges ==
    /\ DOMAIN mailboxes = Addresses
    /\ \A i \in Addresses :
          /\ mailboxes[i].value \in 0 .. 999
          /\ mailboxes[i].value % 100 \in Addresses
    /\ calculator.value \in 0 .. 999
    /\ \A i \in 1 .. Len(in_basket) : in_basket[i].value \in 0 .. 999
    /\ \A i \in 1 .. Len(out_basket) : out_basket[i].value \in 0 .. 999
    /\ counter.value \in 0 .. 99
    /\ counter.value \in Addresses

\* the OUT in mailbox 99 has run and the counter has gone round to 0
C21_Witness ==
    /\ last.counter = 99
    /\ last.word = 902
    /\ counter.value = 0
    /\ pc = "running"
    /\ out_basket = <<calculator>>

\* C26: the machine flag changes only in a cycle that executes ADD, SUB or
\* LDA: no other instruction, no failing step and no call of the owner
\* (reset_counter, load_program, load_input among them) changes it.
C26_FlagFrame ==
    [][flag' # flag =>
          /\ pc = "running"
          /\ pc' # "panicked"
          /\ last'.word \div 100 \in {1, 2, 5}]_vars

\* IN has replaced the accumulator and the NEG of an earlier SUB is still the flag
C26_Witness ==
    /\ last.word = 901
    /\ last.flag = "NEG"
    /\ flag = "NEG"
    /\ calculator.flag = "None"
    /\ calculator.value # last.calc

\* the value in an output slot, if any
OutputValue(slot) == [i \in 1 .. Len(slot) |-> slot[i].value]

\* C22: after a run that halted, reset_counter, load_input of the same values
\* and execute_program again give the outcome (Ok or the error) and the
\* output value of the first run.
C22_Repeatable ==
    (calls = 6 /\ Returns) =>
       /\ result.ret = trial.ret
       /\ OutputValue(out_basket) = OutputValue(trial.output)

\* this step is a fetch-execute cycle (one that fetches, or one that hits the maximum)
Cycles == pc = "running" /\ pc' # "panicked"

\* C23: in a fetch-execute cycle only STO changes a mailbox, and only the one
\* its operand names, which it sets to the accumulator; every other
\* instruction and every failing step leaves the 100 mailboxes as they were.
C23_MemoryFrame ==
    [][Cycles =>
          mailboxes' = IF last'.word \div 100 = 3
                       THEN [mailboxes EXCEPT ![last'.word % 100] = calculator]
                       ELSE mailboxes]_vars

\* STO 6 has written the 999 of the accumulator to mailbox 6
C23_Witness ==
    /\ last.word = 306
    /\ calculator.value = 999
    /\ mailboxes[6] = calculator
    /\ mailboxes[7].value = 0

\* C24: LDA sets the accumulator to the value of the mailbox its operand
\* names and clears the flag whatever it was, and a BRP executed in the cycle
\* after an LDA jumps, also when the number loaded carries NEG from the
\* accumulator STO took it from.
C24_LdaClears ==
    [][Cycles =>
          /\ last'.word \div 100 = 5 =>
                /\ calculator'.value = mailboxes[last'.word % 100].value
                /\ flag' = "None"
          /\ (last.word \div 100 = 5 /\ last'.word \div 100 = 8) =>
                counter'.value = last'.word % 100]_vars

\* BRP 5 has jumped with an accumulator that LDA loaded from a mailbox
\* holding 999 with NEG
C24_Witness ==
    /\ last.word = 805
    /\ counter.value = 5
    /\ calculator = ThreeDigitNumber(999, "NEG")
    /\ flag = "None"

\* C25: after ADD the flag is OVERFLOW if the sum exceeded 999 and none
\* otherwise; after SUB it is NEG if the difference was negative and none
\* otherwise; the flag an earlier instruction left plays no part.
C25_ArithFlag ==
    LET operand == mailboxes[last.word % 100].value
    IN  /\ last.word \div 100 = 1 =>
              flag = IF last.calc + operand > 999 THEN "OVERFLOW" ELSE "None"
        /\ last.word \div 100 = 2 =>
              flag = IF last.calc - operand < 0 THEN "NEG" ELSE "None"

\* a SUB with a difference of 0 has cleared the OVERFLOW an ADD had left
C25_Witness ==
    /\ last.word = 206
    /\ last.flag = "OVERFLOW"
    /\ last.calc = 998
    /\ calculator.value = 0
    /\ flag = "None"

\* the last cycle executed an instruction that does not jump and did not fail
Advances ==
    \/ last.word \div 100 \in {1, 2, 3, 5}
    \/ last.word = 902
    \/ last.word = 901 /\ (last.queue # <<>> \/ read_blocking(last.ext[1]).tag = "Ok")
    \/ last.word \div 100 = 7 /\ last.calc # 0
    \/ last.word \div 100 = 8 /\ last.flag = "NEG"

\* C27: a cycle that executes, at counter 99, an instruction that does not
\* jump leaves the counter at 0 and the program running, no error returned,
\* so that the next fetch is from mailbox 0; the flag is what
\* the instruction makes it (ADD, SUB, LDA) or what it was: the OVERFLOW of
\* the counter's addition does not reach it.
C27_CounterWrap ==
    [][(Cycles /\ counter.value = 99 /\ last'.word # -1 /\ Advances') =>
          /\ counter'.value = 0
          /\ pc' = "running"
          /\ last'.word \div 100 \notin {1, 2, 5} => flag' = flag
          /\ last'.word \div 100 = 5 => flag' = "None"
          /\ last'.word \div 100 \in {1, 2} => C25_ArithFlag']_vars

\* a BRP not taken at counter 99 has left the counter at 0 and the flag NEG
C27_Witness ==
    /\ last.counter = 99
    /\ last.word = 850
    /\ last.flag = "NEG"
    /\ counter.value = 0
    /\ flag = "NEG"
    /\ pc = "running"

\* C28: BRZ sets the counter to its operand iff the accumulator's value is 0,
\* whatever the flag, and otherwise adds 1 to it; BR always sets the counter
\* to its operand; neither changes accumulator, flag, memory, queue or
\* output slot.
C28_Branches ==
    [][Cycles =>
          /\ last'.word \div 100 = 7 =>
                /\ counter'.value = IF calculator.value = 0
                                    THEN last'.word % 100
                                    ELSE (counter.value + 1) % 100
                /\ UNCHANGED <<calculator, flag, mailboxes, in_basket, out_basket>>
          /\ last'.word \div 100 = 6 =>
                /\ counter'.value = last'.word % 100
                /\ UNCHANGED <<calculator, flag, mailboxes, in_basket, out_basket>>]_vars

\* BRZ 5 has jumped on the 0 an ADD wrapped to, the flag being OVERFLOW
C28_Witness ==
    /\ last.word = 705
    /\ last.calc = 0
    /\ last.flag = "OVERFLOW"
    /\ counter.value = 5
    /\ flag = "OVERFLOW"

\* C29: a fetched word with hundreds digit 4, or 9 with an operand other than
\* 1 and 2, makes execute_program return InvalidOpcode, and for a 9xx word
\* the payload is the word fetched, in three digits.
C29_InvalidOpcode ==
    (\/ last.word \div 100 = 4
     \/ last.word \div 100 = 9 /\ last.word % 100 \notin {1, 2}) =>
       /\ Returns
       /\ result.ret.tag = "Err"
       /\ result.ret.err.kind = "InvalidOpcode"
       /\ last.word \div 100 = 9 => result.ret.err.text = FormatPadded(last.word, 3)

\* C30: a step that fails with InvalidOpcode, or with IOError or NumberError
\* from IN, leaves the counter at the failing instruction and the
\* accumulator, the flag, the mailboxes, the input queue and the output slot
\* as they were when it was fetched.
C30_Atomic ==
    [][(/\ Cycles
        /\ pc' = "idle"
        /\ result'.ret.tag = "Err"
        /\ result'.ret.err.kind \in {"InvalidOpcode", "IOError", "NumberError"}) =>
          /\ UNCHANGED <<counter, calculator, flag, mailboxes, in_basket, out_basket>>
          /\ mailboxes[counter.value].value = last'.word]_vars

\* an IN has failed on a line that is no number, after a SUB whose result
\* and flag are still there
C30_Witness ==
    /\ Returns
    /\ result.ret.tag = "Err"
    /\ result.ret.err.kind = "IOError"
    /\ last.word = 901
    /\ counter.value = 1
    /\ calculator = ThreeDigitNumber(999, "NEG")
    /\ flag = "NEG"

\* this step is a call of execute_program
Executes == result'.op = "execute_program" /\ calls' = calls + 1

\* C31: a cycle that fetches a word in 0..99 makes execute_program return Ok
\* and changes nothing of the machine, the counter staying at the cell
\* fetched; an execute_program called next, on the machine as the halt left
\* it, starts at that cell again and changes nothing before its first fetch.
C31_Halt ==
    /\ [][(Cycles /\ last'.word \in 0 .. 99) =>
             /\ pc' = "idle"
             /\ result'.ret = Ok
             /\ UNCHANGED <<mailboxes, calculator, flag, counter, in_basket,
                            out_basket, max_cycles>>
             /\ mailboxes'[counter'.value].value = last'.word]_vars
    /\ [][(Returns /\ result.ret = Ok /\ Executes) =>
             /\ mailboxes'[counter'.value].value \in 0 .. 99
             /\ UNCHANGED <<mailboxes, calculator, flag, counter, in_basket,
                            out_basket, max_cycles>>]_vars

\* load_program, execute_program, execute_program: the first run halted on
\* the DAT 1 in mailbox 5, and the second has halted there on its first cycle
C31_Witness ==
    /\ calls = 3
    /\ inputs.loaded = <<>>
    /\ max_cycles = 0
    /\ mailboxes[0].value = 205
    /\ Returns
    /\ result.ret = Ok
    /\ cycles = 1
    /\ last.word = 1
    /\ last.counter = 5
    /\ counter.value = 5
    /\ calculator = ThreeDigitNumber(999, "NEG")

\* C32: the cycle count starts at 0 in every call of execute_program; with a
\* maximum N >= 1, each of the rounds 1 .. N-1 fetches and applies one
\* instruction, returning Ok exactly when the word fetched is in 0..99, and
\* round N returns MaxCyclesHit(N) without fetching, the machine unchanged:
\* with N = 1 the first round already.
C32_CycleBudget ==
    [][/\ Executes => cycles' = 0
       /\ (Cycles /\ max_cycles >= 1) =>
             /\ cycles' = cycles + 1
             /\ cycles' <= max_cycles
             /\ IF cycles' = max_cycles
                THEN /\ pc' = "idle"
                     /\ result'.ret = Err(MaxCyclesHit(max_cycles))
                     /\ last' = NoCycle
                     /\ UNCHANGED <<mailboxes, calculator, flag, counter,
                                    in_basket, out_basket>>
                ELSE /\ last'.word = mailboxes[counter.value].value
                     /\ last'.counter = counter.value
                     /\ (pc' = "idle" /\ result'.ret = Ok) <=> last'.word \in 0 .. 99]_vars

\* load_program, execute_program, execute_program with a maximum of 3: the
\* first run applied SUB and STO, the second LDA and BRP, and each returned
\* MaxCyclesHit(3); the counter is on a cell that halts
C32_Witness ==
    /\ calls = 3
    /\ inputs.loaded = <<>>
    /\ max_cycles = 3
    /\ Returns
    /\ result.ret = Err(MaxCyclesHit(3))
    /\ cycles = 3
    /\ mailboxes[0].value = 205
    /\ mailboxes[6].value = 999
    /\ counter.value = 5
    /\ flag = "None"

\* the lines with a fault the first pass detects: a token count other than
\* 1 to 3, or two tokens neither of which is a mnemonic
FirstPassFaults(lines) ==
    {i \in 1 .. Len(lines) : Len(lines[i]) \notin 1 .. 3 \/ UnknownPair(lines[i])}

\* the lines with a fault only the second pass detects: an unknown mnemonic
\* alone or in the middle of three tokens, an operand that no line defines,
\* or an operand of DAT that is no number of three digits
SecondPassFaults(lines) ==
    {i \in 1 .. Len(lines) :
        \/ Len(lines[i]) = 1 /\ lines[i][1] \notin OPCODES
        \/ Len(lines[i]) = 3 /\ ~WellFormed(lines[i])} \cup Undefined(lines)

\* what assemble ends with at the faulty line i: its error, or the abort of
\* the unwrap on the operand of DAT
FaultOf(input, i) ==
    LET parts == SourceLines(input)[i]
    IN  CASE Len(parts) \notin 1 .. 3 ->
                Err(InvalidNumberOfMneumonics(Len(parts),
                                              Trim(StripComment(Remaining(input)[i]))))
          [] Len(parts) = 2 /\ parts[1] \notin OPCODES -> Err(AsmInvalidOpcode(parts[2]))
          [] Len(parts) = 1 -> Err(AsmInvalidOpcode(parts[1]))
          [] Len(parts) = 3 /\ parts[2] \notin OPCODES -> Err(AsmInvalidOpcode(parts[2]))
          [] Len(parts) = 3 /\ parts[2] = OPCODES_DAT -> Panic
          [] OTHER -> Err(InvalidLabel(Use(parts)[2]))

\* C33: when some line has a fault the first pass detects, assemble returns
\* the error of the first such line, also when a line before it has a fault
\* the second pass detects; when no line has one and some line has a fault of
\* the second pass, it returns the error of the first of those.
C33_PassOrder ==
    (Assembled /\ Len(Remaining(asm_input)) \in 1 .. 100) =>
        LET lines == SourceLines(asm_input)
            inFirst == FirstPassFaults(lines)
            inSecond == SecondPassFaults(lines)
        IN  /\ inFirst # {} => assembled = FaultOf(asm_input, Least(inFirst))
            /\ (inFirst = {} /\ inSecond # {}) =>
                  assembled = FaultOf(asm_input, Least(inSecond))

\* `FOO`, then `BR L` with no L, then `A B`: the error is that of line 3
C33_Witness ==
    /\ Assembled
    /\ Len(asm_input) = 3
    /\ SourceLines(asm_input)[1] = <<TokFoo>>
    /\ 2 \in Undefined(SourceLines(asm_input))
    /\ FirstPassFaults(SourceLines(asm_input)) = {3}
    /\ assembled = Err(AsmInvalidOpcode(TokB))

\* C34: when the machine of lmc.rs has halted with Ok on a program, the
\* machine of main.rs given the same program and the same lines on stdin has
\* halted with Ok too, has fetched from the same counter values in the same
\* order, and has the same mailboxes, accumulator, flag and output slot.
C34_Agree ==
    (calls = 2 /\ Returns /\ result.ret = Ok) =>
       /\ twin.pc = "idle"
       /\ twin.ret = Ok
       /\ paths.main = paths.lmc
       /\ twin.mailboxes = mailboxes
       /\ twin.calculator = calculator
       /\ twin.flag = flag
       /\ twin.out_basket = out_basket

====
